---- MODULE Spec2Model ----
(***************************************************************************)
(* The MCP session / transport layer of the HTTP server (class MCPServer   *)
(* of src/server.js and its streaming variant src/unnamed/part_002): the   *)
(* session registry `transports`, the request router handlePostRequest /   *)
(* handleGetRequest, the notification streamer streamMessages, cleanup,    *)
(* the tools/call dispatcher with its tool handlers, the helper methods    *)
(* isInitializeRequest and createErrorResponse, the tools/list catalogs,   *)
(* and the HTTP client MCPHTTPClient of src/index.js.                      *)
(*                                                                         *)
(* Every `await` of a handler is a suspension point: the handler is cut    *)
(* into the segments that run between two awaits, and segments of          *)
(* different requests interleave freely (single-threaded event loop).      *)
(* The SDK objects the handlers call (Server.connect, the transport's      *)
(* handleRequest) are modelled at their interface: what the call makes     *)
(* visible synchronously, and whether its promise resolves or rejects.     *)
(***************************************************************************)
EXTENDS Integers, Sequences, FiniteSets, TLC

\* ---------------------------------------------------------------- bounds
MaxInFlight == 2     \* HTTP requests being handled at the same time
MaxTransports == 2   \* transports constructed over a run
MaxUuid == 3         \* calls of randomUUID over a run
MaxCalls == 2        \* tools/call requests answered over a run

\* ------------------------------------------------------ program constants
JSON_RPC == "2.0"
ErrorCode == -32000
BadRequestMessage == "Bad Request: invalid session ID or method."
InternalErrorPrefix == "Internal server error: "
InternalErrorMessage == "Internal server error."
Established == "SSE Connection established"
Complete == "Streaming complete!"

\* Faulty variant: the streamer stops one tick later.
StreamCountThree == 2 + 1

StreamCount == 2     \* `if (messageCount === 2)` ends the streamer

VARIABLES
    transports,       \* MCPServer.transports: session id -> transport
    tobj,             \* the transport objects constructed so far
    serverTransport,  \* the transport the shared Server is connected to
    uuidCount,        \* number of UUIDs drawn from randomUUID
    reqs,             \* the handlers suspended at an await or streaming
    ev,               \* what the last handler segment received and wrote
    variant,          \* the server file that runs: "server.js" or "part_002"
    call,             \* the tools/call request the Server is handling
    answers,          \* the JSON-RPC responses to the tools/call requests
    probe,            \* the last call of a helper method and what it returned
    client,           \* the MCPHTTPClient of src/index.js and its requests
    process,          \* the Node process of the server: "running" or "exited"
    wf                \* the LangGraph workflow of a client and its state

vars == <<transports, tobj, serverTransport, uuidCount, reqs, ev,
          variant, call, answers, probe, client, process, wf>>

\* What the router never writes, and what the tool dispatcher never writes.
toolVars == <<variant, call, answers, probe, client, process, wf>>
routerVars == <<transports, tobj, serverTransport, uuidCount, reqs, ev, variant,
                probe, client, process, wf>>

Variants == {"server.js", "part_002"}

\* ----------------------------------------------------------- HTTP inputs
\* Values of req.headers["mcp-session-id"]: the header may be missing
\* (undefined), empty, the name of a member every object inherits from
\* Object.prototype, a session id no transport has, or an id a client holds.
Absent == "<undefined>"
EmptyHeader == ""
ProtoKey == "constructor"
StaleId == "stale-session-id"

\* JSON-RPC messages of a request body.
InitializeMsg == [method |-> "initialize", params |-> "valid"]
BadInitializeMsg == [method |-> "initialize", params |-> "missing"]
ToolsListMsg == [method |-> "tools/list", params |-> "none"]

Single(m) == [isArray |-> FALSE, items |-> <<m>>]
Batch(ms) == [isArray |-> TRUE, items |-> ms]

\* req.body of a GET.
NoBody == [isArray |-> FALSE, items |-> <<>>]

Bodies ==
    { Single(InitializeMsg), Single(BadInitializeMsg), Single(ToolsListMsg),
      Batch(<<ToolsListMsg, InitializeMsg>>) }

\* ------------------------------------------------------------- randomUUID
Uuid(n) == "uuid-" \o ToString(n)

\* Faulty variant: a generator that returns the same value on every call.
ConstantUUID == Uuid(1)

\* crypto.randomUUID(): a value never returned before.
randomUUID == Uuid(uuidCount + 1)

\* ------------------------------------------------------------- the codec
\* Faulty variant: only the method name is looked at, not the params.
isInitialMethodOnly(data) == data.method = "initialize"

\* InitializeRequestSchema.safeParse(data).success
isInitial(data) == data.method = "initialize" /\ data.params = "valid"

\* Faulty variant: an array must hold initialize requests only.
isInitializeRequestEvery(body) ==
    IF body.isArray
    THEN \A i \in 1..Len(body.items) : isInitial(body.items[i])
    ELSE isInitial(body.items[1])

\* Array.isArray(body) ? body.some(isInitial) : isInitial(body)
isInitializeRequest(body) ==
    IF body.isArray
    THEN \E i \in 1..Len(body.items) : isInitial(body.items[i])
    ELSE isInitial(body.items[1])

\* Faulty variant: every envelope carries the same id.
createErrorResponseFixedId(message) ==
    [jsonrpc |-> JSON_RPC,
     error |-> [code |-> ErrorCode, message |-> message],
     id |-> ConstantUUID]

createErrorResponse(message) ==
    [jsonrpc |-> JSON_RPC,
     error |-> [code |-> ErrorCode, message |-> message],
     id |-> randomUUID]

NoEnvelope == [jsonrpc |-> "", error |-> [code |-> 0, message |-> ""], id |-> ""]

\* ----------------------------------------------------------- the registry
\* Values a variable holding `this.transports[sessionId]` can take.
Undefined == 0
ObjectProtoMember == -1     \* e.g. {}["constructor"]: truthy, no transport

Truthy(header) == header \notin {Absent, EmptyHeader}

\* Faulty variant: a known session resolves to the transport created last.
LatestTransport(sessionId) ==
    IF sessionId \in DOMAIN transports THEN Len(tobj)
    ELSE IF sessionId = ProtoKey THEN ObjectProtoMember
    ELSE Undefined

\* this.transports[sessionId] on the plain object `transports = {}`: an own
\* property, else what Object.prototype provides under that name.
Lookup(sessionId) ==
    IF sessionId \in DOMAIN transports THEN transports[sessionId]
    ELSE IF sessionId = ProtoKey THEN ObjectProtoMember
    ELSE Undefined

\* Faulty variant: the write rebinds every key to the new transport.
PutClobber(sessionId, transport) ==
    [k \in DOMAIN transports \cup {sessionId} |-> transport]

\* Faulty variant: the write replaces the registry by the new entry alone.
PutReset(sessionId, transport) == [k \in {sessionId} |-> transport]

\* Faulty variant: the transport is stored under a key of its own making.
PutUnderFreshKey(sessionId, transport) ==
    [k \in DOMAIN transports \cup {randomUUID} |->
        IF k = randomUUID THEN transport ELSE transports[k]]

\* this.transports[sessionId] = transport
Put(sessionId, transport) ==
    [k \in DOMAIN transports \cup {sessionId} |->
        IF k = sessionId THEN transport ELSE transports[k]]

\* ------------------------------------------------------ transport objects
NewTransport ==
    [sessionId |-> "",       \* transport.sessionId, "" while undefined
     active |-> 0,           \* handleRequest calls not yet settled
     firstHandled |-> FALSE, \* its first handleRequest has returned
     announced |-> FALSE,    \* a client received its session id
     closed |-> FALSE]       \* transport.close() has run

Transports == 1..Len(tobj)

\* Session ids that an initialize response has carried to a client.
Issued == { tobj[t].sessionId : t \in { u \in Transports : tobj[u].announced } }

Headers == {Absent, EmptyHeader, ProtoKey, StaleId} \cup Issued

\* ------------------------------------------------------- request handlers
Slots == 1..MaxInFlight

\* The local state of a handler across its awaits.
FreeSlot ==
    [pc |-> "free", verb |-> "", transport |-> Undefined, outcome |-> "",
     via |-> Undefined, messageCount |-> 0]

AwaitPcs == {"connect_await", "handle_await", "reuse_await", "get_await"}

Busy == Cardinality({ r \in Slots : reqs[r].pc \in AwaitPcs })

\* Faulty variant: a server that takes no request while an API call of a
\* tool is outstanding (a blocking call).
CanReceiveUnlessPending(r) ==
    /\ reqs[r].pc = "free"
    /\ \A q \in 1..(r - 1) : reqs[q].pc # "free"
    /\ uuidCount + Busy + 1 <= MaxUuid
    /\ call.pc = "idle"
    /\ \A i \in 1..Len(answers) : answers[i].kind # "pending"

\* A request is taken by the first idle handler; the client sends one only
\* while the run's budget of UUIDs covers every handler that may still draw
\* one.
CanReceive(r) ==
    /\ reqs[r].pc = "free"
    /\ \A q \in 1..(r - 1) : reqs[q].pc # "free"
    /\ uuidCount + Busy + 1 <= MaxUuid

\* The HTTP side of one handler segment: the request it received (op
\* "received") or the handler it resumed (op "resumed"), the transport it
\* worked on, the status and body it wrote (writer "router": the router's
\* res.status().json(); writer "transport": the transport took the
\* response), the session id it stored in the registry, whether a promise
\* rejected with nobody to catch it, the notifications it passed to
\* transport.send (in call order) and the frames the transport wrote to
\* its event stream (in write order).
NoEvent ==
    [op |-> "none", slot |-> 0, verb |-> "", header |-> Absent,
     body |-> NoBody, transport |-> Undefined, status |-> 0, writer |-> "",
     envelope |-> NoEnvelope, stored |-> "", rejected |-> FALSE,
     sent |-> <<>>, out |-> <<>>]

Received(r, verb, header, body) ==
    [NoEvent EXCEPT !.op = "received", !.slot = r, !.verb = verb,
                    !.header = header, !.body = body]

Resumed(r) ==
    [NoEvent EXCEPT !.op = "resumed", !.slot = r, !.verb = reqs[r].verb,
                    !.transport = reqs[r].transport]

\* res.status(code).json(this.createErrorResponse(message)); return;
Respond(r, e, code, message) ==
    /\ ev' = [e EXCEPT !.status = code, !.writer = "router",
                       !.envelope = createErrorResponse(message)]
    /\ reqs' = [reqs EXCEPT ![r] = FreeSlot]
    /\ uuidCount' = uuidCount + 1

\* The message of the 500 envelope: server.js appends error.message,
\* part_002 does not.
InternalServerError(message) ==
    IF variant = "server.js" THEN InternalErrorPrefix \o message
    ELSE InternalErrorMessage

\* new StreamableHTTPServerTransport({sessionIdGenerator: () => randomUUID()})
sessionIdGenerator == randomUUID

\* What a call transport.handleRequest(req, res, body) can do: hand the
\* message to the Server ("dispatched"), answer on its own without the
\* Server ("refused"), reject its promise before anything was written to
\* res ("throw"), or reject it after the response was started
\* ("throw_sent").
HandleOutcomes == {"dispatched", "refused", "throw", "throw_sent"}

Throws == {"throw", "throw_sent"}

\* Faulty variant: the 500 envelope is written whatever the transport has
\* done with the response.
CaughtWrites500(r, e, outcome, message) ==
    Respond(r, e, 500, InternalServerError(message))

\* The catch block of handlePostRequest:
\*   res.status(500).json(this.createErrorResponse(...))
\* On a response the transport has already started, res.json() throws
\* (headers already sent) out of the catch block: the handler's promise
\* rejects and nothing is written.
Caught(r, e, outcome, message) ==
    IF outcome = "throw_sent"
    THEN /\ ev' = [e EXCEPT !.rejected = TRUE]
         /\ reqs' = [reqs EXCEPT ![r] = FreeSlot]
         /\ uuidCount' = uuidCount + 1
    ELSE Respond(r, e, 500, InternalServerError(message))

\* The synchronous part of transport.handleRequest on transport t. A
\* transport without session id that accepts its first message generates
\* the id; the Server answers through the transport it is connected to, and
\* the client reads the id from that answer.
CallHandleRequest(t, outcome) ==
    LET first == tobj[t].sessionId = "" /\ outcome = "dispatched"
    IN  [tobj EXCEPT ![t] =
           [@ EXCEPT !.active = @ + 1,
                     !.sessionId = IF first THEN sessionIdGenerator ELSE @,
                     !.announced = @ \/ (first /\ serverTransport = t)]]

\* The handler record and the event of a segment that ends suspended on
\* transport.handleRequest of t with the given outcome.
Suspended(rec, pc, outcome) ==
    [rec EXCEPT !.pc = pc, !.outcome = outcome,
                !.via = IF outcome = "dispatched"
                        THEN serverTransport ELSE Undefined]

Forwarded(e, t, outcome) ==
    [e EXCEPT !.transport = t,
              !.writer = IF outcome = "throw" THEN "" ELSE "transport",
              !.status = IF outcome \in {"dispatched", "throw_sent"}
                         THEN 200 ELSE 0]

\* Faulty variant: a settled call ends every call on the transport.
SettleAll(tr, t) == [tr EXCEPT ![t] = [@ EXCEPT !.active = 0]]

\* The promise of transport.handleRequest on t has settled.
Settle(tr, t) == [tr EXCEPT ![t] = [@ EXCEPT !.active = @ - 1]]

\* ---------------------------------------------------------- notifications
\* A notification sent by the streamer that handler r started.
Frame(r, data) == [slot |-> r, data |-> data]

\* `Message ${messageCount} at ${new Date().toISOString()}`, without the time.
MessageData(messageCount) == "Message " \o ToString(messageCount)

\* Faulty variant: the newest frame is put in front of the pending ones.
writeFirst(stream, frame) == <<frame>> \o stream

\* The transport writes one whole frame to the end of its event stream.
writeSSEEvent(stream, frame) == Append(stream, frame)

SendOutcomes == {"written", "rejected"}

\* this.sendNotification(transport, notification), not awaited: the call
\* reaches transport.send at once. The frame is written, or the promise
\* rejects with nobody to catch it; a closed transport drops the frame.
sendNotification(e, transport, frame, outcome) ==
    [e EXCEPT
        !.sent = Append(@, frame),
        !.out = IF outcome = "written" /\ ~transport.closed
                THEN writeSSEEvent(@, frame) ELSE @,
        !.rejected = @ \/ outcome = "rejected"]

\* ------------------------------------------------ handlePostRequest (POST)
\* `if (sessionId && this.transports[sessionId])`: reuse. The call of
\* transport.handleRequest runs up to its first await inside this segment.
PostReuse(r, header, body) ==
    /\ CanReceive(r)
    /\ Truthy(header) /\ Lookup(header) # Undefined
    /\ LET t == Lookup(header)
           e == [Received(r, "POST", header, body) EXCEPT !.transport = t]
       IN  IF t = ObjectProtoMember
           THEN \* TypeError: transport.handleRequest is not a function
                /\ Respond(r, e, 500,
                       InternalServerError("transport.handleRequest is not a function"))
                /\ UNCHANGED <<transports, tobj, serverTransport>>
           ELSE \E outcome \in HandleOutcomes :
                /\ tobj' = CallHandleRequest(t, outcome)
                /\ reqs' = [reqs EXCEPT ![r] =
                     Suspended([FreeSlot EXCEPT !.verb = "POST", !.transport = t],
                               "reuse_await", outcome)]
                /\ ev' = Forwarded(e, t, outcome)
                /\ UNCHANGED <<transports, serverTransport, uuidCount>>
    /\ UNCHANGED toolVars

\* `if (!sessionId && this.isInitializeRequest(req.body))`: create, up to
\* `await this.server.connect(transport)`. connect makes the new transport
\* the one the Server is connected to, or rejects.
PostCreate(r, header, body) ==
    /\ CanReceive(r)
    /\ ~(Truthy(header) /\ Lookup(header) # Undefined)
    /\ ~Truthy(header) /\ isInitializeRequest(body)
    /\ Len(tobj) < MaxTransports
    /\ LET t == Len(tobj) + 1
       IN  \E outcome \in {"ok", "throw"} :
           /\ tobj' = Append(tobj, NewTransport)
           /\ serverTransport' = IF outcome = "ok" THEN t ELSE serverTransport
           /\ reqs' = [reqs EXCEPT ![r] =
                [FreeSlot EXCEPT !.pc = "connect_await", !.verb = "POST",
                                 !.transport = t, !.outcome = outcome]]
           /\ ev' = [Received(r, "POST", header, body) EXCEPT !.transport = t]
    /\ UNCHANGED <<transports, uuidCount>>
    /\ UNCHANGED toolVars

\* Neither branch: HTTP 400.
PostReject(r, header, body) ==
    /\ CanReceive(r)
    /\ ~(Truthy(header) /\ Lookup(header) # Undefined)
    /\ ~(~Truthy(header) /\ isInitializeRequest(body))
    /\ Respond(r, Received(r, "POST", header, body), 400, BadRequestMessage)
    /\ UNCHANGED <<transports, tobj, serverTransport>>
    /\ UNCHANGED toolVars

\* Faulty variant: the transport is registered as soon as its session id is
\* generated, before the awaited handleRequest has returned.
PostConnectedEarlyPut(r) ==
    /\ reqs[r].pc = "connect_await"
    /\ IF reqs[r].outcome = "throw"
       THEN /\ Respond(r, Resumed(r), 500, InternalServerError("connect failed"))
            /\ UNCHANGED <<tobj, transports>>
       ELSE \E outcome \in HandleOutcomes :
            LET t == reqs[r].transport
            IN  /\ tobj' = CallHandleRequest(t, outcome)
                /\ transports' = IF outcome = "dispatched"
                                 THEN Put(sessionIdGenerator, t) ELSE transports
                /\ uuidCount' = IF outcome = "dispatched"
                                THEN uuidCount + 1 ELSE uuidCount
                /\ reqs' = [reqs EXCEPT ![r] =
                              Suspended(@, "handle_await", outcome)]
                /\ ev' = Forwarded(Resumed(r), t, outcome)
    /\ UNCHANGED serverTransport
    /\ UNCHANGED toolVars

\* Create, after `await this.server.connect(transport)`: the catch block on
\* a rejection, else the call of transport.handleRequest up to its await.
PostConnected(r) ==
    /\ reqs[r].pc = "connect_await"
    /\ IF reqs[r].outcome = "throw"
       THEN /\ Respond(r, Resumed(r), 500, InternalServerError("connect failed"))
            /\ UNCHANGED tobj
       ELSE \E outcome \in HandleOutcomes :
            LET t == reqs[r].transport
            IN  /\ tobj' = CallHandleRequest(t, outcome)
                /\ uuidCount' = IF outcome = "dispatched"
                                THEN uuidCount + 1 ELSE uuidCount
                /\ reqs' = [reqs EXCEPT ![r] =
                              Suspended(@, "handle_await", outcome)]
                /\ ev' = Forwarded(Resumed(r), t, outcome)
    /\ UNCHANGED <<transports, serverTransport>>
    /\ UNCHANGED toolVars

\* Create, after `await transport.handleRequest(req, res, req.body)`: the
\* catch block on a rejection, else
\*   const newSessionId = transport.sessionId;
\*   if (newSessionId) { this.transports[newSessionId] = transport; }
PostHandled(r) ==
    /\ reqs[r].pc = "handle_await"
    /\ LET t == reqs[r].transport
           newSessionId == tobj[t].sessionId
       IN  IF reqs[r].outcome \in Throws
           THEN /\ Caught(r, Resumed(r), reqs[r].outcome, "handleRequest failed")
                /\ tobj' = Settle(tobj, t)
                /\ UNCHANGED transports
           ELSE /\ tobj' = Settle([tobj EXCEPT ![t].firstHandled = TRUE], t)
                /\ transports' = IF newSessionId # ""
                                 THEN Put(newSessionId, t) ELSE transports
                /\ ev' = [Resumed(r) EXCEPT !.stored = newSessionId]
                /\ reqs' = [reqs EXCEPT ![r] = FreeSlot]
                /\ UNCHANGED uuidCount
    /\ UNCHANGED serverTransport
    /\ UNCHANGED toolVars

\* Faulty variant: a reuse whose handleRequest threw drops the session.
ReuseHandledEvict(r) ==
    /\ reqs[r].pc = "reuse_await"
    /\ tobj' = Settle(tobj, reqs[r].transport)
    /\ IF reqs[r].outcome \in Throws
       THEN /\ Caught(r, Resumed(r), reqs[r].outcome, "handleRequest failed")
            /\ transports' = [k \in { j \in DOMAIN transports :
                                        transports[j] # reqs[r].transport } |->
                                 transports[k]]
       ELSE /\ reqs' = [reqs EXCEPT ![r] = FreeSlot]
            /\ ev' = Resumed(r)
            /\ UNCHANGED <<uuidCount, transports>>
    /\ UNCHANGED serverTransport
    /\ UNCHANGED toolVars

\* Reuse, after `await transport.handleRequest(req, res, req.body)`.
ReuseHandled(r) ==
    /\ reqs[r].pc = "reuse_await"
    /\ tobj' = Settle(tobj, reqs[r].transport)
    /\ IF reqs[r].outcome \in Throws
       THEN Caught(r, Resumed(r), reqs[r].outcome, "handleRequest failed")
       ELSE /\ reqs' = [reqs EXCEPT ![r] = FreeSlot]
            /\ ev' = Resumed(r)
            /\ UNCHANGED uuidCount
    /\ UNCHANGED <<transports, serverTransport>>
    /\ UNCHANGED toolVars

\* -------------------------------------------------- handleGetRequest (GET)
\* `if (!sessionId || !this.transports[sessionId])`: HTTP 400.
GetReject(r, header) ==
    /\ CanReceive(r)
    /\ ~Truthy(header) \/ Lookup(header) = Undefined
    /\ Respond(r, Received(r, "GET", header, NoBody), 400, BadRequestMessage)
    /\ UNCHANGED <<transports, tobj, serverTransport>>
    /\ UNCHANGED toolVars

\* Otherwise `await transport.handleRequest(req, res)`, outside any try: a
\* throw rejects the handler's promise and the request gets no response.
GetForward(r, header) ==
    /\ CanReceive(r)
    /\ ~(~Truthy(header) \/ Lookup(header) = Undefined)
    /\ LET t == Lookup(header)
           e == [Received(r, "GET", header, NoBody) EXCEPT !.transport = t]
       IN  IF t = ObjectProtoMember
           THEN \* TypeError: transport.handleRequest is not a function
                /\ ev' = [e EXCEPT !.rejected = TRUE]
                /\ UNCHANGED <<tobj, reqs>>
           ELSE \E outcome \in {"refused"} \cup Throws :
                /\ tobj' = CallHandleRequest(t, outcome)
                /\ reqs' = [reqs EXCEPT ![r] =
                     Suspended([FreeSlot EXCEPT !.verb = "GET", !.transport = t],
                               "get_await", outcome)]
                /\ ev' = Forwarded(e, t, outcome)
    /\ UNCHANGED <<transports, serverTransport, uuidCount>>
    /\ UNCHANGED toolVars

\* Faulty variant: the streamer is started against the newest transport.
StreamTargetLatest(r) == Len(tobj)

\* The argument of `this.streamMessages(transport)`.
StreamTarget(r) == reqs[r].transport

\* After the await. server.js: the handler returns. part_002:
\* `await this.streamMessages(transport)` sends the first notification
\* through transport.send and arms the interval timer.
GetHandled(r) ==
    /\ reqs[r].pc = "get_await"
    /\ tobj' = Settle(tobj, reqs[r].transport)
    /\ IF reqs[r].outcome \in Throws
       THEN /\ reqs' = [reqs EXCEPT ![r] = FreeSlot]
            /\ ev' = [Resumed(r) EXCEPT !.rejected = TRUE]
       ELSE IF variant = "server.js"
       THEN /\ reqs' = [reqs EXCEPT ![r] = FreeSlot]
            /\ ev' = Resumed(r)
       ELSE \E outcome \in SendOutcomes :
            LET t == StreamTarget(r)
            IN  /\ reqs' = [reqs EXCEPT ![r] =
                     [@ EXCEPT !.pc = "streaming", !.via = t, !.transport = t,
                               !.messageCount = 0]]
                /\ ev' = sendNotification(Resumed(r), tobj[t],
                                          Frame(r, Established), outcome)
    /\ UNCHANGED <<transports, serverTransport, uuidCount>>
    /\ UNCHANGED toolVars

\* One firing of the setInterval callback of streamMessages: messageCount++,
\* one notification, and on the last firing clearInterval and the
\* 'Streaming complete!' notification.
StreamTick(r) ==
    /\ reqs[r].pc = "streaming"
    /\ LET t == reqs[r].transport
           messageCount == reqs[r].messageCount + 1
           e == [NoEvent EXCEPT !.op = "tick", !.slot = r, !.transport = t]
           message == Frame(r, MessageData(messageCount))
       IN  \E o1, o2 \in SendOutcomes :
           IF messageCount = StreamCount
           THEN /\ ev' = sendNotification(sendNotification(e, tobj[t], message, o1),
                                          tobj[t], Frame(r, Complete), o2)
                /\ reqs' = [reqs EXCEPT ![r] = FreeSlot]
           ELSE /\ o2 = o1
                /\ ev' = sendNotification(e, tobj[t], message, o1)
                /\ reqs' = [reqs EXCEPT ![r] = [@ EXCEPT !.messageCount = messageCount]]
    /\ UNCHANGED <<transports, tobj, serverTransport, uuidCount>>
    /\ UNCHANGED toolVars

\* A promise rejected with no handler: Node raises it as an uncaught
\* exception once the segment has ended, and with no 'unhandledRejection'
\* or 'uncaughtException' listener installed the process exits. Another
\* build only warns; then this step is not taken.
UnhandledRejection ==
    /\ process = "running"
    /\ ev.rejected
    /\ process' = "exited"
    /\ UNCHANGED <<transports, tobj, serverTransport, uuidCount, reqs, ev,
                   variant, call, answers, probe, client, wf>>

\* A step of the server takes a running process.
Running(step) == process = "running" /\ step

\* ---------------------------------------------------------------- cleanup
\* `await this.server.close()`: the Server closes the transport it is
\* connected to and forgets it.
cleanup ==
    /\ tobj' = IF serverTransport = Undefined THEN tobj
               ELSE [tobj EXCEPT ![serverTransport].closed = TRUE]
    /\ serverTransport' = Undefined
    /\ ev' = [NoEvent EXCEPT !.op = "cleanup", !.transport = serverTransport]
    /\ UNCHANGED <<transports, uuidCount, reqs>>
    /\ UNCHANGED toolVars


\* ------------------------------------------------------------- tools/call
MethodNotFound == -32601    \* ErrorCode.MethodNotFound
InternalError == -32603     \* ErrorCode.InternalError

API_BASE_URL == "http://localhost:4000"

\* The tools of server.js: the name the dispatcher matches, the method it
\* awaits, the endpoint the method calls, the prefix of its error message,
\* and where the method first reads a property of `args`: inside its try
\* before the API call, inside its try after it, or outside the try.
ServerTools ==
    { [name |-> "get_candidate_list", handler |-> "getCandidateList",
       endpoint |-> "/host-company/browse/candidates?per_page=10&page_number=1",
       prefix |-> "Failed to retrieve candidate list: ", reads |-> "before"],
      [name |-> "get_career_field_list", handler |-> "getCareerFieldList",
       endpoint |-> "/common-services/career-field/get-list",
       prefix |-> "Failed to retrieve career field list: ", reads |-> "after"],
      [name |-> "get_internship_opportunity_list", handler |-> "getIoList",
       endpoint |-> "/host-company/browse-intern/get-io-list?with_career_field=1",
       prefix |-> "Failed to retrieve internship opportunities list: ",
       reads |-> "after"],
      [name |-> "get_company_project_list", handler |-> "getCompanyProjectList",
       endpoint |-> "/common-services/company-project/list",
       prefix |-> "Failed to retrieve project list: ", reads |-> "before"],
      [name |-> "shortlist_intern", handler |-> "shortListIntern",
       endpoint |-> "/host-company/browse-intern/save-shortlist-intern",
       prefix |-> "Failed to shortlist intern: ", reads |-> "outside"] }

\* The one tool of part_002, handled inside the dispatcher itself.
StreamingTools ==
    { [name |-> "recommend_candidate", handler |-> "recommend_candidate",
       endpoint |-> "/api/v1/internal-service/recommendation",
       prefix |-> "Failed to create recommendation: ", reads |-> "before"] }

Tools == IF variant = "server.js" THEN ServerTools ELSE StreamingTools

\* request.params.name of a tools/call: every tool of either file, no name,
\* and a name that differs from a tool's only in case.
CallNames ==
    { h.name : h \in ServerTools \cup StreamingTools } \cup {"", "SHORTLIST_INTERN"}

\* Faulty variant: the name is matched without regard to case.
ResolveIgnoreCase(name) ==
    { h \in Tools :
        h.name = IF name = "SHORTLIST_INTERN" THEN "shortlist_intern" ELSE name }

\* `switch (name) { case "...": }` / `toolName === "..."`: the tools whose
\* name is the requested one.
Resolve(name) == { h \in Tools : h.name = name }

\* Error messages are kept as the sequence of the pieces they are built of.
Error(message) == [code |-> Undefined, message |-> message]

\* new McpError(code, message): message `MCP error ${code}: ${message}`
McpError(code, message) ==
    [code |-> code, message |-> <<"MCP error ", ToString(code), ": ">> \o message]

\* Reading a property of `args` when request.params.arguments is undefined.
ArgsTypeError == Error(<<"Cannot read properties of undefined">>)

\* How the awaits of makeApiCall can fail: fetch rejects, the response is
\* not ok, response.json() rejects.
Failures ==
    [fetch |-> [name |-> "TypeError", message |-> "fetch failed"],
     status |-> [name |-> "Error",
                 message |-> "API call failed: 500 Internal Server Error"],
     json |-> [name |-> "SyntaxError",
               message |-> "Unexpected token < in JSON at position 0"]]

\* The catch block of makeApiCall:
\*   throw new Error(`Failed to make API call to ${url}: ${error} ${error.message}`)
ApiError(endpoint, error) ==
    Error(<<"Failed to make API call to ", API_BASE_URL \o endpoint, ": ",
            error.name, ": ", error.message, " ", error.message>>)

\* Faulty variant: the handler reports a failure without its cause.
HandlerErrorGeneric(h, error) == McpError(InternalError, <<h.prefix>>)

\* The catch block of a tool handler:
\*   throw new McpError(ErrorCode.InternalError, `Failed to ...: ${error.message}`)
HandlerError(h, error) == McpError(InternalError, <<h.prefix>> \o error.message)

\* Values of arguments.internId: a JSON string or a JSON number, each kept
\* with its text; Missing when there is no such property.
Str(s) == [type |-> "string", value |-> s]
Num(s) == [type |-> "number", value |-> s]
Missing == [type |-> "undefined", value |-> "undefined"]

\* A decimal string, one with leading zeros, one that is no number, a number.
InternIds == {Str("42"), Str("007"), Str("abc"), Num("42")}

\* request.params.arguments: undefined, or an object with internId.
UndefinedArgs == [defined |-> FALSE, internId |-> Missing]

Arguments ==
    {UndefinedArgs} \cup { [defined |-> TRUE, internId |-> x] : x \in InternIds }

\* Number(value), as the text of the number it returns.
Number(v) ==
    IF v.type = "number" THEN v.value
    ELSE IF v = Str("42") THEN "42"
    ELSE IF v = Str("007") THEN "7"
    ELSE "NaN"

\* Faulty variant: the text shows the number sent to the API.
TemplateNumber(v) == Number(v)

\* `${value}`: a string as it is, a number in decimal, "undefined".
TemplateString(v) == v.value

\* The content a handler returns: shortListIntern echoes args.internId, the
\* list handlers format the API result.
Content(c) ==
    IF c.tool = "shortlist_intern"
    THEN <<[type |-> "text",
            text |-> <<"Successfully shortlisted intern with ID: ",
                       TemplateString(c.args.internId)>>]>>
    ELSE <<[type |-> "text", text |-> <<"<formatted API result>">>]>>

NoCall ==
    [pc |-> "idle", name |-> "", args |-> UndefinedArgs, tool |-> "",
     invoked |-> <<>>, fetches |-> 0, body |-> ""]

\* The Server answers a tools/call whose handler threw with a JSON-RPC
\* error: the error's code if it has one, else InternalError, and its
\* message.
ErrorAnswer(c, error, failure) ==
    [name |-> c.name, args |-> c.args, kind |-> "error",
     code |-> IF error.code = Undefined THEN InternalError ELSE error.code,
     message |-> error.message, content |-> <<>>,
     invoked |-> c.invoked, fetches |-> c.fetches, body |-> c.body,
     failure |-> failure]

ResultAnswer(c) ==
    [name |-> c.name, args |-> c.args, kind |-> "result", code |-> Undefined,
     message |-> <<>>, content |-> Content(c),
     invoked |-> c.invoked, fetches |-> c.fetches, body |-> c.body,
     failure |-> ""]

Answer(a) ==
    /\ answers' = Append(answers, a)
    /\ call' = NoCall

\* The handler h has called makeApiCall, which is suspended in fetch.
Fetching(c, h) ==
    /\ call' = [c EXCEPT !.pc = "fetch_await", !.tool = h.name,
                         !.fetches = @ + 1,
                         !.body = IF h.name = "shortlist_intern"
                                  THEN Number(c.args.internId) ELSE ""]
    /\ UNCHANGED answers

\* The tool a suspended call is running.
Tool(c) == CHOOSE h \in ServerTools \cup StreamingTools : h.name = c.tool

\* `return await this.handler(args)`: the handler up to its first await.
Invoke(c, h) ==
    LET d == [c EXCEPT !.invoked = Append(@, h.handler)]
    IN  IF ~c.args.defined /\ h.reads = "outside"
        THEN Answer(ErrorAnswer(d, ArgsTypeError, ""))
        ELSE IF ~c.args.defined /\ h.reads = "before"
        THEN Answer(ErrorAnswer(d, HandlerError(h, ArgsTypeError), ""))
        ELSE Fetching(d, h)

\* The CallToolRequestSchema handler up to its first await. part_002 checks
\* the arguments and the name before it compares the name; server.js
\* switches on the name.
CallToolRequest(name, args) ==
    /\ call.pc = "idle"
    /\ Len(answers) < MaxCalls
    /\ LET c == [NoCall EXCEPT !.name = name, !.args = args]
       IN  IF variant = "part_002" /\ ~args.defined
           THEN Answer(ErrorAnswer(c, Error(<<"arguments undefined">>), ""))
           ELSE IF variant = "part_002" /\ name = ""
           THEN Answer(ErrorAnswer(c, Error(<<"tool name undefined">>), ""))
           ELSE IF Resolve(name) # {}
           THEN \E h \in Resolve(name) : Invoke(c, h)
           ELSE IF variant = "part_002"
           THEN Answer(ErrorAnswer(c, Error(<<"Tool not found">>), ""))
           ELSE Answer(ErrorAnswer(c,
                   McpError(MethodNotFound, <<"Unknown tool: ", name>>), ""))
    /\ UNCHANGED routerVars

\* makeApiCall after `await fetch(url, options)`: fetch rejected, the
\* response is not ok, or the response is ok and response.json() is awaited.
\* A failure passes through the catch blocks of makeApiCall and the handler.
FetchSettled(outcome) ==
    /\ call.pc = "fetch_await"
    /\ IF outcome = "ok"
       THEN /\ call' = [call EXCEPT !.pc = "json_await"]
            /\ UNCHANGED answers
       ELSE LET h == Tool(call)
            IN  Answer(ErrorAnswer(call,
                   HandlerError(h, ApiError(h.endpoint, Failures[outcome])),
                   Failures[outcome].message))
    /\ UNCHANGED routerVars

\* makeApiCall after `await response.json()`, and the rest of the handler.
JsonSettled(outcome) ==
    /\ call.pc = "json_await"
    /\ LET h == Tool(call)
       IN  IF outcome # "ok"
           THEN Answer(ErrorAnswer(call,
                   HandlerError(h, ApiError(h.endpoint, Failures[outcome])),
                   Failures[outcome].message))
           ELSE IF ~call.args.defined
           THEN Answer(ErrorAnswer(call, HandlerError(h, ArgsTypeError), ""))
           ELSE Answer(ResultAnswer(call))
    /\ UNCHANGED routerVars

\* `await fetch(url, options)` with no timeout, against an API that never
\* answers: the promise stays pending, the handler stays suspended on it
\* for good and its tools/call gets no answer; the event loop is free.
FetchHangs ==
    /\ call.pc = "fetch_await"
    /\ Answer([ResultAnswer(call) EXCEPT !.kind = "pending", !.content = <<>>])
    /\ UNCHANGED routerVars

\* ------------------------------------------- helper methods and catalogs
MaxBatch == 2        \* elements of a JSON-RPC batch body

\* A body element that is no request object: null, a number, a string.
NotARequest == [method |-> "<none>", params |-> "none"]

Messages == {InitializeMsg, BadInitializeMsg, ToolsListMsg, NotARequest}

\* req.body after express.json(): one value, or an array of up to MaxBatch
\* values, the empty array included.
ProbeBodies ==
    { Single(m) : m \in Messages } \cup
    { Batch(ms) : ms \in UNION { [1..n -> Messages] : n \in 0..MaxBatch } }

\* The messages the router passes to createErrorResponse, and the empty one.
ErrorMessages ==
    { BadRequestMessage, InternalErrorMessage,
      InternalErrorPrefix \o "connect failed", "" }

\* The servers of the repository: the two stdio servers and the HTTP server
\* of src/server.js, and the streaming HTTP server.
Servers == {"stdio", "scheduler", "server.js", "part_002"}

\* The names each server's tools/call handler dispatches on.
Dispatched(server) ==
    IF server = "stdio"
    THEN {"get_candidate_list", "get_io_list", "get_career_field_list",
          "shortlist_intern"}
    ELSE IF server = "scheduler"
    THEN {"recommend_candidate", "schedule_interview"}
    ELSE IF server = "server.js"
    THEN { h.name : h \in ServerTools }
    ELSE { h.name : h \in StreamingTools }

\* The properties of the get_candidate_list schema.
CandidateFilters ==
    {"skillIds", "preferredStartMonths", "durations", "projectIds",
     "careerFieldIds", "internUuids", "onlyFilters", "perPage", "pageNumber",
     "irIds", "careerSkillName", "wantToLearnCareerFieldSkillName",
     "projectsDescription", "aboutMe", "countryIds", "universityName",
     "pastExperience", "portfolio"}

\* A JSON schema object: its properties and its required list.
Schema(properties, required) ==
    [type |-> "object", properties |-> properties, required |-> required]

\* The array a server's tools/list handler returns. A descriptor is the
\* object literal of the source, with the keys it has there.
Catalog(server) ==
    IF server = "stdio"
    THEN { [name |-> "get_candidate_list",
            description |-> "Retrieve a list of candidates/interns",
            inputSchema |-> Schema(CandidateFilters, {})],
           [name |-> "get_career_field_list",
            description |-> "Retrieve a list of all available career fields",
            inputSchema |-> Schema({"type"}, {})],
           [name |-> "shortlist_intern",
            description |-> "Add an intern to the shortlist",
            parameters |-> Schema({"internId"}, {"internId"})] }
    ELSE IF server = "scheduler"
    THEN { [name |-> "recommend_candidate",
            description |-> "Recommend a candidate to a company",
            inputSchema |-> Schema({"candidateId", "companyId", "pocId"},
                                   {"candidateId", "companyId", "pocId"})],
           [name |-> "schedule_interview",
            description |-> "Schedule an interview",
            inputSchema |->
              Schema({"internshipOpportunityId", "internId", "interviewLink",
                      "interviewerId", "startTime", "endTime"},
                     {"internshipOpportunityId", "internId", "interviewLink",
                      "interviewerId", "startTime", "endTime"})] }
    ELSE IF server = "server.js"
    THEN { [name |-> "get_company_project_list",
            description |-> "Retrieve a list of company projects",
            inputSchema |-> Schema({"perPage", "pageNumber"}, {})],
           [name |-> "get_internship_opportunity_list",
            description |-> "Retrieve a list of internship opportunities",
            inputSchema |-> Schema({"with_career_field"}, {})],
           [name |-> "get_candidate_list",
            description |-> "Retrieve a list of candidates/interns",
            inputSchema |-> Schema(CandidateFilters, {})],
           [name |-> "get_career_field_list",
            description |-> "Retrieve a list of all available career fields",
            inputSchema |-> Schema({"type"}, {})],
           [name |-> "shortlist_intern",
            description |-> "Add an intern to the shortlist",
            inputSchema |-> Schema({"internId"}, {"internId"})] }
    ELSE { [name |-> "recommend_candidate",
            description |-> "Recommend a candidate to a company",
            inputSchema |-> Schema({"candidateId", "companyId", "pocId"},
                                   {"candidateId", "companyId", "pocId"})] }

\* The last call of each helper: the body given to isInitializeRequest and
\* its result, the message given to createErrorResponse, the envelope it
\* returned and the ids its earlier calls returned, and the server asked
\* for its tools with the array it answered.
NoProbe ==
    [op |-> "none", body |-> NoBody, result |-> FALSE, message |-> "",
     envelope |-> NoEnvelope, ids |-> {}, server |-> "", tools |-> {}]

\* this.isInitializeRequest(body)
CallIsInitializeRequest(body) ==
    /\ probe' = [probe EXCEPT !.op = "isInitializeRequest", !.body = body,
                              !.result = isInitializeRequest(body)]
    /\ UNCHANGED <<transports, tobj, serverTransport, uuidCount, reqs, ev,
                   variant, call, answers, client, process, wf>>

\* this.createErrorResponse(message)
CallCreateErrorResponse(message) ==
    /\ uuidCount < MaxUuid
    /\ probe' = [probe EXCEPT
                   !.op = "createErrorResponse", !.message = message,
                   !.envelope = createErrorResponse(message),
                   !.ids = IF probe.envelope = NoEnvelope THEN @
                           ELSE @ \cup {probe.envelope.id}]
    /\ uuidCount' = uuidCount + 1
    /\ UNCHANGED <<transports, tobj, serverTransport, reqs, ev,
                   variant, call, answers, client, process, wf>>

\* The ListToolsRequestSchema handler of a server.
ListToolsRequest(server) ==
    /\ probe' = [probe EXCEPT !.op = "tools/list", !.server = server,
                              !.tools = Catalog(server)]
    /\ UNCHANGED <<transports, tobj, serverTransport, uuidCount, reqs, ev,
                   variant, call, answers, client, process, wf>>

\* -------------------------------------- the CLI (src/unnamed/part_000)
\* `confidence` of the JSON the LLM wrote: a number (in tenths here), a
\* string, null, or no such key.
MaxTenths == 10
Tenths(n) == [type |-> "number", tenths |-> n, text |-> ""]
Quoted(text) == [type |-> "string", tenths |-> 0, text |-> text]
JsonNull == [type |-> "null", tenths |-> 0, text |-> ""]
NoKey == [type |-> "undefined", tenths |-> 0, text |-> ""]
Confidences ==
    {Tenths(n) : n \in 0..MaxTenths}
        \cup {Quoted("0.3"), Quoted("0.9"), Quoted("high"), JsonNull, NoKey}

\* ToNumber of JavaScript, in tenths; NaN compares false with every number.
ToNumber(v) ==
    CASE v.type = "number" -> [nan |-> FALSE, tenths |-> v.tenths]
      [] v.type = "null" -> [nan |-> FALSE, tenths |-> 0]
      [] v.type = "undefined" -> [nan |-> TRUE, tenths |-> 0]
      [] v.type = "string" ->
            CASE v.text = "0.3" -> [nan |-> FALSE, tenths |-> 3]
              [] v.text = "0.9" -> [nan |-> FALSE, tenths |-> 9]
              [] OTHER -> [nan |-> TRUE, tenths |-> 0]
LessThan(v, tenths) == ~ToNumber(v).nan /\ ToNumber(v).tenths < tenths

\* `confidence < 0.5`
LowConfidence(confidence) == LessThan(confidence, 5)

\* What analyzePrompt returns: the parsed JSON of the LLM, or null.
CliTools == {"recommend_candidate", "schedule_interview", "cancel_interview"}
NoAnalysis == [present |-> FALSE, tool |-> "", confidence |-> NoKey]
Analyses ==
    {NoAnalysis} \cup
    {[present |-> TRUE, tool |-> tool, confidence |-> confidence] :
        tool \in CliTools, confidence \in Confidences}

\* A line of the user: blank, "exit" in some case, or a request.
UserInputs == {"  ", "EXIT", "schedule an interview", "cancel interview 7"}
ToolResults == {"null", "result"}

\* The callback of rl.question for one line, to its end.
NoLine ==
    [userInput |-> "", analysis |-> NoAnalysis, executeTool |-> FALSE,
     toolResult |-> "null", next |-> "askQuestion"]
askQuestion(userInput, analysis, toolResult) ==
    /\ probe.op \in {"none", "askQuestion"}
    /\ probe.op = "askQuestion" => probe.body.next = "askQuestion"
    /\ LET line == [NoLine EXCEPT !.userInput = userInput]
           answered ==
               IF userInput = "EXIT" THEN [line EXCEPT !.next = "exit"]
               ELSE IF userInput = "  " THEN line
               ELSE IF ~analysis.present
                    THEN line
                    ELSE IF LowConfidence(analysis.confidence)
                         THEN [line EXCEPT !.analysis = analysis]
                         ELSE [line EXCEPT !.analysis = analysis,
                                           !.executeTool = TRUE,
                                           !.toolResult = toolResult]
       IN  probe' = [NoProbe EXCEPT !.op = "askQuestion", !.body = answered]
    /\ UNCHANGED <<transports, tobj, serverTransport, uuidCount, reqs, ev,
                   variant, call, answers, client, process, wf>>

\* ------------------------------------- MCPHTTPClient (src/index.js)
MaxRequests == 3     \* calls of makeRequest over a run

Null == "<null>"     \* this.sessionId = null

Methods == {"initialize", "tools/list", "tools/call"}

\* response.headers.get("mcp-session-id"): null without the header, else
\* its value, which may be empty.
ResponseSessionIds == {Absent, EmptyHeader, "session-A", "session-B"}

\* fetch rejects, or resolves with a response that is ok or not.
FetchOutcomes == {"rejected", "not_ok", "ok"}

\* What a JSON-RPC response of the server carries: an error, or a result
\* with the tool list of tools/list or the content of tools/call. A text
\* in it may hold the characters "data:".
PayloadTexts == {"done", "data: 1"}
Payloads == [kind : {"tools", "content"}, text : PayloadTexts]
NoPayload == [kind |-> "none", text |-> ""]
ErrorEnvelope == [valid |-> TRUE, error |-> TRUE, result |-> NoPayload]
ResultEnvelope(payload) == [valid |-> TRUE, error |-> FALSE, result |-> payload]
Envelopes == {ErrorEnvelope} \cup {ResultEnvelope(payload) : payload \in Payloads}

\* Text that is no JSON, and the lines of a body that carry no JSON.
NotJson == [valid |-> FALSE, error |-> FALSE, result |-> NoPayload]

\* The two ways the server delivers an envelope: as the JSON body, or as
\* one SSE event whose data line is the JSON.
PlainJson(envelope) == <<[prefix |-> "", json |-> envelope]>>
SseFrame(envelope) ==
    <<[prefix |-> "event: ", json |-> NotJson],
      [prefix |-> "data: ", json |-> envelope]>>
ResponseTexts ==
    {PlainJson(envelope) : envelope \in Envelopes \cup {NotJson}}
        \cup {SseFrame(envelope) : envelope \in Envelopes}
NoText == <<>>

\* `responseText.startsWith('event:') || responseText.includes('data:')`
IsSSE(responseText) ==
    \/ responseText[1].prefix = "event: "
    \/ \E i \in 1..Len(responseText) :
          \/ responseText[i].prefix = "data: "
          \/ responseText[i].json.result.text = "data: 1"

\* What makeRequest gives its caller: it throws, or returns the result of
\* an envelope, a whole envelope, or `{ raw: ... }`.
Threw == [threw |-> TRUE, shape |-> "none", of |-> NotJson]
Returned(shape, envelope) == [threw |-> FALSE, shape |-> shape, of |-> envelope]
NotReturned == [threw |-> FALSE, shape |-> "none", of |-> NotJson]

\* parseSSEResponse(sseText): the JSON of the data lines, parsed, as it is.
parseSSEResponse(sseText) ==
    LET data == {i \in 1..Len(sseText) : sseText[i].prefix = "data: "}
    IN  IF data = {} THEN Returned("raw", NotJson)
        ELSE LET json == sseText[CHOOSE i \in data : TRUE].json
             IN  IF json.valid THEN Returned("envelope", json)
                 ELSE Returned("raw", NotJson)

\* makeRequest from `await response.text()` on.
ReadBody(responseText) ==
    IF IsSSE(responseText) THEN parseSSEResponse(responseText)
    ELSE LET responseData == responseText[1].json
         IN  IF ~responseData.valid THEN Threw
             ELSE IF responseData.error THEN Threw
                  ELSE Returned("result", responseData)

\* `tools?.result?.tools || []` of initializeMCP, on what listTools returned.
NoTools == [kind |-> "tools", text |-> ""]
InitializedTools(returned) ==
    IF /\ returned.shape = "envelope"
       /\ ~returned.of.error
       /\ returned.of.result.kind = "tools"
    THEN returned.of.result
    ELSE NoTools

\* `result.content[0]?.text || ...` of a tool wrapper, in its try.
WrapperText(returned) ==
    IF returned.shape = "result" /\ returned.of.result.kind = "content"
    THEN returned.of.result.text
    ELSE "Error shortlisting candidate"

\* The last thing the client did: the request it sent with its session
\* header, or the response it read with the header that one carried.
NoExchange ==
    [op |-> "none", method |-> "", header |-> Absent, outcome |-> "",
     responseSessionId |-> Absent, responseText |-> NoText,
     returned |-> NotReturned]

\* constructor(serverUrl): no session id, nothing sent.
NewClient ==
    [sessionId |-> Null, pending |-> <<>>, made |-> 0, last |-> NoExchange]

\* `if (this.sessionId) headers[SESSION_ID_HEADER_NAME] = this.sessionId`
RequestHeader(sessionId) == IF sessionId # Null THEN sessionId ELSE Absent

\* Faulty variant: every response that carries a session id replaces it.
AdoptLatest(sessionId, responseSessionId) ==
    IF Truthy(responseSessionId) THEN responseSessionId ELSE sessionId

\* `if (responseSessionId && !this.sessionId) this.sessionId = responseSessionId`
Adopt(sessionId, responseSessionId) ==
    IF Truthy(responseSessionId) /\ sessionId = Null
    THEN responseSessionId ELSE sessionId

\* makeRequest(method, params) up to `await fetch(...)`: the headers are
\* built from this.sessionId as it is at the call.
makeRequest(method) ==
    /\ client.made < MaxRequests
    /\ Len(client.pending) < MaxInFlight
    /\ LET header == RequestHeader(client.sessionId)
       IN  client' =
             [client EXCEPT
                !.pending = Append(@, [method |-> method, header |-> header]),
                !.made = @ + 1,
                !.last = [NoExchange EXCEPT !.op = "request",
                                            !.method = method,
                                            !.header = header]]
    /\ UNCHANGED <<transports, tobj, serverTransport, uuidCount, reqs, ev,
                   variant, call, answers, probe, process, wf>>

\* makeRequest after `await fetch(...)` of its i-th pending request: a
\* rejection and a response that is not ok throw before the session id is
\* looked at; the body of an ok response is read after it.
ResponseReceived(i, outcome, responseSessionId, responseText) ==
    /\ i \in 1..Len(client.pending)
    /\ client' =
         [client EXCEPT
            !.pending = SubSeq(@, 1, i - 1) \o SubSeq(@, i + 1, Len(@)),
            !.sessionId = IF outcome = "ok"
                          THEN Adopt(@, responseSessionId) ELSE @,
            !.last = [op |-> "response",
                      method |-> client.pending[i].method,
                      header |-> client.pending[i].header,
                      outcome |-> outcome,
                      responseSessionId |-> responseSessionId,
                      responseText |-> responseText,
                      returned |-> IF outcome = "ok"
                                   THEN ReadBody(responseText) ELSE Threw]]
    /\ UNCHANGED <<transports, tobj, serverTransport, uuidCount, reqs, ev,
                   variant, call, answers, probe, process, wf>>

\* ------------------------------------------------- LangGraph workflows
\* The assistants of src/index.js and src/unnamed/part_001 compile a graph
\* of nodes over channels and invoke it once per line the user types.
\* `messages` is kept as what the nodes and the edges read of it: the
\* tool calls of the last message, the tool calls of the last assistant
\* message that had any, whether a tool message is present, and the last
\* text of the user.
Flows == {"index.js", "http", "part_001", "confirm"}

MaxCallsPerMessage == 2     \* tool calls in one answer of the LLM
MaxRounds == 2              \* answers with tool calls in one invocation
maxToolCalls == 3           \* `maxToolCalls: 3` of the initial state

\* The workflows whose execute_tools guards every step of a tool call.
GuardedFlows == {"index.js", "http", "part_001"}

Implementations(flow) ==
    CASE flow = "index.js" ->
            {"recommend_candidate", "schedule_interview", "cancel_interview",
             "get_upcoming_interviews", "get_requirements"}
      [] flow = "http" ->
            {"get_candidate_list", "get_career_field_list",
             "get_internship_opportunity_list", "shortlist_intern"}
      [] flow = "part_001" ->
            {"recommend_candidate", "schedule_interview", "cancel_interview"}
      [] flow = "confirm" ->
            {"schedule_interview", "cancel_interview",
             "get_upcoming_interviews", "get_requirements"}

UnknownTool == "no_such_tool"

\* `function.arguments` is text the LLM wrote: JSON.parse gives the
\* parameters, or throws.
NoParams == [company |-> Null, interview_id |-> Null]
BrokenJson == "{"
JSONParse(text) ==
    CASE text = "{}" -> NoParams
      [] text = "{\"company\":\"TechCorp\"}" ->
            [company |-> "TechCorp", interview_id |-> Null]
      [] text = "{\"interview_id\":\"int_2\"}" ->
            [company |-> Null, interview_id |-> "int_2"]
Parses(text) == text # BrokenJson

\* A tool call as the LLM writes it, before its id.
Proposed(name, arguments) == [name |-> name, arguments |-> arguments]

\* The tool calls the LLM puts in an answer: tools of the workflow with
\* arguments that parse or not, and a name that no workflow implements.
ProposedCalls(flow) ==
    CASE flow = "http" ->
            {Proposed("shortlist_intern", "{}"),
             Proposed("get_candidate_list", "{}"),
             Proposed("get_candidate_list", BrokenJson),
             Proposed(UnknownTool, "{}")}
      [] flow = "confirm" ->
            {Proposed("cancel_interview", "{\"company\":\"TechCorp\"}"),
             Proposed("cancel_interview", "{\"interview_id\":\"int_2\"}"),
             Proposed("cancel_interview", BrokenJson),
             Proposed("get_upcoming_interviews", "{}"),
             Proposed(UnknownTool, "{}")}
      [] OTHER ->
            {Proposed("schedule_interview", "{}"),
             Proposed("schedule_interview", BrokenJson),
             Proposed(UnknownTool, "{}")}

\* `message.tool_calls`: absent, or an array (an empty one is truthy).
NoToolCalls == [present |-> FALSE, calls |-> <<>>]
WithIds(message, proposed) ==
    [i \in 1..Len(proposed) |->
        [id |-> [message |-> message, index |-> i],
         name |-> proposed[i].name,
         arguments |-> proposed[i].arguments]]
LLMAnswers(flow, message) ==
    {NoToolCalls} \cup
    {[present |-> TRUE, calls |-> WithIds(message, proposed)] :
        proposed \in UNION {[1..n -> ProposedCalls(flow)] :
                                n \in 0..MaxCallsPerMessage}}

\* What awaiting a tool implementation does.
HandlerOutcomes == {"ok", "throws"}

\* No message of the invocation has cancel_interview as its first call.
NoId == [message |-> 0, index |-> 0]

\* mockDB.interviews of the confirmation flow, by id.
MockInterviews == {"int_1", "int_2"}

NoContext ==
    [awaitingConfirmation |-> FALSE, pendingCancellation |-> Null,
     cancellationApproved |-> FALSE]
NoWorkflow ==
    [flow |-> "none", node |-> "idle", result |-> NoToolCalls,
     last |-> NoToolCalls, toolCalls |-> NoToolCalls, outputs |-> <<>>,
     hasToolResults |-> FALSE, toolCallCount |-> 0,
     maxToolCalls |-> 0, executed |-> 0, user |-> "", context |-> NoContext,
     globalContext |-> NoContext, interviews |-> MockInterviews,
     originalId |-> NoId, rounds |-> 0, step |-> "none"]

\* app.invoke(initialState): system and user message, counters as passed.
InitialState(flow, user, context) ==
    [NoWorkflow EXCEPT !.flow = flow, !.node = "generate_response",
                       !.maxToolCalls = maxToolCalls, !.user = user,
                       !.context = context, !.step = "invoke"]

ToolMessage(toolCall, content) ==
    [tool_call_id |-> toolCall.id, role |-> "tool", name |-> toolCall.name,
     content |-> content]

\* One pass of the loop of a guarded execute_tools.
GuardedOutput(flow, toolCall, outcome) ==
    IF ~Parses(toolCall.arguments)
    THEN ToolMessage(toolCall, "Error parsing arguments")
    ELSE IF toolCall.name \in Implementations(flow)
         THEN IF outcome = "ok"
              THEN ToolMessage(toolCall, "output")
              ELSE ToolMessage(toolCall, "Tool execution error")
         ELSE ToolMessage(toolCall, "Tool not found")

GuardedOutputs(flow, toolCalls, outcomes) ==
    [i \in 1..Len(toolCalls) |-> GuardedOutput(flow, toolCalls[i], outcomes[i])]

\* `lastMessage.tool_calls || []`
LastToolCalls == IF wf.last.present THEN wf.last.calls ELSE <<>>

\* ------------------------------------------ the agent of the HTTP client
ReachedMaxCalls(toolCallCount, max) == toolCallCount >= max

CountedNever(toolCallCount, responseMessage) == toolCallCount

\* `responseMessage.tool_calls ? state.toolCallCount + 1 : state.toolCallCount`
Counted(toolCallCount, responseMessage) ==
    IF responseMessage.present THEN toolCallCount + 1 ELSE toolCallCount

SimpleOperations == {"shortlist_intern"}

\* The edge out of generate_response.
AfterGenerate(result) == IF result.present THEN "execute_tools" ELSE "__end__"

\* The edge out of execute_tools of the HTTP client.
AfterExecute(state) ==
    LET hasOnlySimpleOperations ==
            /\ state.toolCalls.present
            /\ \A i \in 1..Len(state.toolCalls.calls) :
                   state.toolCalls.calls[i].name \in SimpleOperations
    IN  IF state.hasToolResults /\ hasOnlySimpleOperations
        THEN "final_response"
        ELSE IF /\ state.hasToolResults
                /\ ~ReachedMaxCalls(state.toolCallCount, state.maxToolCalls)
             THEN "generate_response"
             ELSE "final_response"

AppInvoke(flow) ==
    /\ wf.node \in {"idle", "__end__"}
    /\ wf' = InitialState(flow, "", NoContext)
    /\ UNCHANGED <<transports, tobj, serverTransport, uuidCount, reqs, ev,
                   variant, call, answers, probe, client, process>>

AgentGenerateResponse ==
    /\ wf.flow = "http"
    /\ wf.node = "generate_response"
    /\ IF ReachedMaxCalls(wf.toolCallCount, wf.maxToolCalls)
       THEN wf' = [wf EXCEPT !.result = NoToolCalls, !.last = NoToolCalls,
                             !.outputs = <<>>,
                             !.node = AfterGenerate(NoToolCalls),
                             !.step = "generate_response"]
       ELSE \E answer \in LLMAnswers("http", wf.executed + 1) :
                wf' = [wf EXCEPT
                         !.result = answer,
                         !.last = answer,
                         !.outputs = <<>>,
                         !.toolCalls = IF answer.present THEN answer ELSE @,
                         !.toolCallCount = Counted(@, answer),
                         !.node = AfterGenerate(answer),
                         !.step = "generate_response"]
    /\ UNCHANGED <<transports, tobj, serverTransport, uuidCount, reqs, ev,
                   variant, call, answers, probe, client, process>>

\* The runs of execute_tools are counted up to one past the limit.
AgentExecuteTools ==
    /\ wf.flow = "http"
    /\ wf.node = "execute_tools"
    /\ \E outcomes \in [1..Len(LastToolCalls) -> HandlerOutcomes] :
          LET toolOutputs == GuardedOutputs("http", LastToolCalls, outcomes)
              state == [wf EXCEPT
                          !.outputs = toolOutputs,
                          !.hasToolResults = @ \/ toolOutputs # <<>>,
                          !.last = IF toolOutputs # <<>>
                                   THEN NoToolCalls ELSE @,
                          !.executed = IF @ > wf.maxToolCalls THEN @ ELSE @ + 1,
                          !.step = "execute_tools"]
          IN  wf' = [state EXCEPT !.node = AfterExecute(state)]
    /\ UNCHANGED <<transports, tobj, serverTransport, uuidCount, reqs, ev,
                   variant, call, answers, probe, client, process>>

AgentFinalResponse ==
    /\ wf.flow = "http"
    /\ wf.node = "final_response"
    /\ wf' = [wf EXCEPT !.result = NoToolCalls, !.last = NoToolCalls,
                        !.outputs = <<>>,
                        !.node = "__end__",
                        !.step = "final_response"]
    /\ UNCHANGED <<transports, tobj, serverTransport, uuidCount, reqs, ev,
                   variant, call, answers, probe, client, process>>

\* -------------------------------- the first workflows (one round of tools)
FirstFlows == {"index.js", "part_001"}

FirstGenerateResponse(flow) ==
    /\ wf.flow = flow
    /\ flow \in FirstFlows
    /\ wf.node = "generate_response"
    /\ \E answer \in LLMAnswers(flow, 1) :
          wf' = [wf EXCEPT !.result = answer, !.last = answer,
                           !.outputs = <<>>,
                           !.toolCalls = IF answer.present THEN answer ELSE @,
                           !.node = AfterGenerate(answer),
                           !.step = "generate_response"]
    /\ UNCHANGED <<transports, tobj, serverTransport, uuidCount, reqs, ev,
                   variant, call, answers, probe, client, process>>

FirstExecuteTools(flow) ==
    /\ wf.flow = flow
    /\ flow \in FirstFlows
    /\ wf.node = "execute_tools"
    /\ \E outcomes \in [1..Len(LastToolCalls) -> HandlerOutcomes] :
          LET toolOutputs == GuardedOutputs(flow, LastToolCalls, outcomes)
          IN  wf' = [wf EXCEPT
                       !.outputs = toolOutputs,
                       !.hasToolResults = @ \/ toolOutputs # <<>>,
                       !.last = IF toolOutputs # <<>> THEN NoToolCalls ELSE @,
                       !.node = "final_response",
                       !.step = "execute_tools"]
    /\ UNCHANGED <<transports, tobj, serverTransport, uuidCount, reqs, ev,
                   variant, call, answers, probe, client, process>>

FirstFinalResponse(flow) ==
    /\ wf.flow = flow
    /\ flow \in FirstFlows
    /\ wf.node = "final_response"
    /\ wf' = [wf EXCEPT !.result = NoToolCalls, !.last = NoToolCalls,
                        !.outputs = <<>>,
                        !.node = "__end__", !.step = "final_response"]
    /\ UNCHANGED <<transports, tobj, serverTransport, uuidCount, reqs, ev,
                   variant, call, answers, probe, client, process>>

\* ------------------------------------------------ the confirmation flow
\* What the user types. Both nodes compare `content.toLowerCase().trim()`.
CancelRequest == "cancel my TechCorp interview"
UserTexts == {CancelRequest, "yes", " Yes ", "no"}
Normalize(text) ==
    CASE text = " Yes " -> "yes"
      [] OTHER -> text

Company(id) ==
    CASE id = "int_1" -> "TechCorp"
      [] id = "int_2" -> "DataSystems"

\* `scheduledInterviews.find(...)`: by company when one is given, else by id.
Find(params, interviews) ==
    LET matching ==
            IF params.company # Null
            THEN {id \in interviews : Company(id) = params.company}
            ELSE {id \in interviews : id = params.interview_id}
    IN  IF matching = {} THEN Null
        ELSE CHOOSE id \in matching : TRUE

\* `{ ...prev, ...newContext }`
MergeContext(prev, newContext) ==
    LET merged(key) ==
            IF key \in DOMAIN newContext THEN newContext[key] ELSE prev[key]
    IN  [awaitingConfirmation |-> merged("awaitingConfirmation"),
         pendingCancellation |-> merged("pendingCancellation"),
         cancellationApproved |-> merged("cancellationApproved")]

NoUpdate == [key \in {} |-> Null]
Cleared == [awaitingConfirmation |-> FALSE, pendingCancellation |-> Null]

\* The state a node hands to a tool: `{ context: updatedContext }`.
ToolState(context) == [hasMessages |-> FALSE, user |-> "", context |-> context]

cancel_interview_at_once(params, state, interviews) ==
    [result |-> "Successfully cancelled", context |-> Cleared,
     interviews |-> interviews \ {Find(params, interviews)}]

cancel_interview(params, state, interviews) ==
    IF state.context.awaitingConfirmation
    THEN LET lastUserMessage ==
                 IF state.hasMessages THEN Normalize(state.user) ELSE ""
             interviewId == state.context.pendingCancellation
         IN  IF lastUserMessage = "yes"
             THEN IF interviewId = Null
                  THEN [result |-> "Error: No interview specified",
                        context |-> Cleared, interviews |-> interviews]
                  ELSE [result |-> "Successfully cancelled",
                        context |-> Cleared,
                        interviews |-> interviews \ {interviewId}]
             ELSE IF lastUserMessage = "no"
                  THEN [result |-> "Cancellation aborted",
                        context |-> Cleared, interviews |-> interviews]
                  ELSE [result |-> "Please respond with either 'yes' or 'no'",
                        context |-> state.context, interviews |-> interviews]
    ELSE LET interviewToCancel == Find(params, interviews)
         IN  IF interviewToCancel = Null
             THEN [result |-> "No matching interview found",
                   context |-> NoUpdate, interviews |-> interviews]
             ELSE [result |-> "Please confirm cancellation",
                   context |-> [pendingCancellation |-> interviewToCancel,
                                awaitingConfirmation |-> TRUE],
                   interviews |-> interviews]

toolImplementations(toolName, params, state, interviews) ==
    IF toolName = "cancel_interview"
    THEN cancel_interview(params, state, interviews)
    ELSE [result |-> "output", context |-> NoUpdate, interviews |-> interviews]

\* The loop of "Normal tool execution": JSON.parse stands outside any try,
\* and a name without an implementation is passed over.
RECURSIVE NormalExecution(_, _, _)
NormalExecution(toolCalls, i, acc) ==
    IF i > Len(toolCalls) \/ acc.threw THEN acc
    ELSE LET toolCall == toolCalls[i]
         IN  IF ~Parses(toolCall.arguments)
             THEN [acc EXCEPT !.threw = TRUE]
             ELSE IF toolCall.name \in Implementations("confirm")
                  THEN LET output ==
                               toolImplementations(
                                   toolCall.name, JSONParse(toolCall.arguments),
                                   ToolState(acc.context), acc.interviews)
                       IN  NormalExecution(toolCalls, i + 1,
                               [outputs |-> Append(acc.outputs,
                                              ToolMessage(toolCall, output.result)),
                                context |-> MergeContext(acc.context,
                                                         output.context),
                                interviews |-> output.interviews,
                                threw |-> FALSE])
                  ELSE NormalExecution(toolCalls, i + 1, acc)

\* `originalToolCall?.tool_calls?.[0]?.id || "cancel_" + Date.now()`
FreshCancelId == [message |-> 0, index |-> 1]
OriginalId == IF wf.originalId = NoId THEN FreshCancelId ELSE wf.originalId
CancelMessage(content) ==
    [tool_call_id |-> OriginalId, role |-> "tool", name |-> "cancel_interview",
     content |-> content]

\* What execute_tools of the confirmation flow returns, and what it did to
\* the mock database.
ConfirmExecution ==
    LET userResponse == Normalize(wf.user)
        pending == wf.context.pendingCancellation
    IN  IF pending # Null /\ userResponse = "yes"
        THEN LET updatedContext ==
                     [wf.context EXCEPT !.cancellationApproved = TRUE]
                 cancellationResult ==
                     cancel_interview(
                         [company |-> Company(pending), interview_id |-> pending],
                         ToolState(updatedContext), wf.interviews)
             IN  [outputs |-> <<CancelMessage(cancellationResult.result)>>,
                  context |-> [updatedContext EXCEPT
                                  !.pendingCancellation = Null],
                  interviews |-> cancellationResult.interviews,
                  threw |-> FALSE]
        ELSE IF pending # Null /\ userResponse = "no"
             THEN [outputs |-> <<CancelMessage("Cancellation aborted as per user request")>>,
                   context |-> [wf.context EXCEPT
                                   !.pendingCancellation = Null],
                   interviews |-> wf.interviews,
                   threw |-> FALSE]
             ELSE NormalExecution(LastToolCalls, 1,
                      [outputs |-> <<>>, context |-> wf.context,
                       interviews |-> wf.interviews, threw |-> FALSE])

\* One line the user types: the chat loop invokes the graph with the
\* context the last invocation that returned has left.
Chat(query) ==
    /\ wf.flow \in {"none", "confirm"}
    /\ wf.node \in {"idle", "__end__", "failed"}
    /\ wf' = [InitialState("confirm", query, wf.globalContext) EXCEPT
                 !.interviews = wf.interviews,
                 !.globalContext = wf.globalContext]
    /\ UNCHANGED <<transports, tobj, serverTransport, uuidCount, reqs, ev,
                   variant, call, answers, probe, client, process>>

\* The LLM asks for tools in at most MaxRounds answers of an invocation.
ConfirmGenerateResponse ==
    /\ wf.flow = "confirm"
    /\ wf.node = "generate_response"
    /\ \E answer \in LLMAnswers("confirm", wf.rounds + 1) :
          /\ answer.present => wf.rounds < MaxRounds
          /\ wf' = [wf EXCEPT
                      !.result = answer,
                      !.last = answer,
                      !.outputs = <<>>,
                      !.toolCalls = IF answer.present THEN answer ELSE @,
                      !.originalId =
                          IF /\ answer.calls # <<>>
                             /\ answer.calls[1].name = "cancel_interview"
                          THEN answer.calls[1].id ELSE @,
                      !.rounds = IF answer.present THEN @ + 1 ELSE @,
                      !.globalContext =
                          IF answer.present THEN @ ELSE wf.context,
                      !.node = AfterGenerate(answer),
                      !.step = "generate_response"]
    /\ UNCHANGED <<transports, tobj, serverTransport, uuidCount, reqs, ev,
                   variant, call, answers, probe, client, process>>

\* A node that throws rejects app.invoke; what the tools did to the mock
\* database before stays done.
ConfirmExecuteTools ==
    /\ wf.flow = "confirm"
    /\ wf.node = "execute_tools"
    /\ LET done == ConfirmExecution
       IN  IF done.threw
           THEN wf' = [wf EXCEPT !.interviews = done.interviews,
                                 !.outputs = <<>>,
                                 !.node = "failed",
                                 !.step = "execute_tools threw"]
           ELSE wf' = [wf EXCEPT
                         !.outputs = done.outputs,
                         !.hasToolResults = @ \/ done.outputs # <<>>,
                         !.last = IF done.outputs # <<>>
                                  THEN NoToolCalls ELSE @,
                         !.context = MergeContext(@, done.context),
                         !.interviews = done.interviews,
                         !.node = "generate_response",
                         !.step = "execute_tools"]
    /\ UNCHANGED <<transports, tobj, serverTransport, uuidCount, reqs, ev,
                   variant, call, answers, probe, client, process>>

\* ------------------------------------------------------- specifications
RouterInit ==
    /\ transports = [k \in {} |-> Undefined]
    /\ tobj = <<>>
    /\ serverTransport = Undefined
    /\ uuidCount = 0
    /\ reqs = [r \in Slots |-> FreeSlot]
    /\ ev = NoEvent
    /\ call = NoCall
    /\ answers = <<>>
    /\ probe = NoProbe
    /\ client = NewClient
    /\ process = "running"
    /\ wf = NoWorkflow

\* The router of server.js.
Init == RouterInit /\ variant = "server.js"

Next ==
    \E r \in Slots :
        \/ \E header \in Headers, body \in Bodies :
              \/ PostReuse(r, header, body)
              \/ PostCreate(r, header, body)
              \/ PostReject(r, header, body)
        \/ PostConnected(r)
        \/ PostHandled(r)
        \/ ReuseHandled(r)
        \/ \E header \in Headers : GetReject(r, header) \/ GetForward(r, header)
        \/ GetHandled(r)

Spec == Init /\ [][Next]_vars

\* The router of either file with the streamer of part_002 and cleanup,
\* on requests that carry no header, an unknown session id or an issued one.
StreamInit == RouterInit /\ variant \in Variants

StreamHeaders == {Absent} \cup Issued

StreamBodies == { Single(InitializeMsg), Single(ToolsListMsg) }

StreamNext ==
    \E r \in Slots :
        \/ \E header \in StreamHeaders, body \in StreamBodies :
              \/ PostReuse(r, header, body)
              \/ PostCreate(r, header, body)
              \/ PostReject(r, header, body)
        \/ PostConnected(r)
        \/ PostHandled(r)
        \/ ReuseHandled(r)
        \/ \E header \in StreamHeaders : GetReject(r, header) \/ GetForward(r, header)
        \/ GetHandled(r)
        \/ StreamTick(r)

SpecStream == StreamInit /\ [][StreamNext]_vars

\* Sessions being created in either file, and cleanup.
TeardownNext ==
    \/ \E r \in Slots :
        \/ PostCreate(r, Absent, Single(InitializeMsg))
        \/ PostConnected(r)
        \/ PostHandled(r)
    \/ cleanup

SpecTeardown == StreamInit /\ [][TeardownNext]_vars

\* The tools/call dispatcher of either file.
ToolsInit == StreamInit

ToolsNext ==
    \/ \E name \in CallNames, args \in Arguments : CallToolRequest(name, args)
    \/ \E outcome \in {"ok", "fetch", "status"} : FetchSettled(outcome)
    \/ \E outcome \in {"ok", "json"} : JsonSettled(outcome)

SpecTools == ToolsInit /\ [][ToolsNext]_vars

\* The helper methods and the tools/list handlers, called with every input.
HelpersNext ==
    \/ \E body \in ProbeBodies : CallIsInitializeRequest(body)
    \/ \E message \in ErrorMessages : CallCreateErrorResponse(message)
    \/ \E server \in Servers : ListToolsRequest(server)

SpecHelpers == Init /\ [][HelpersNext]_vars

\* The CLI, one line of the user after another, with the LLM analysing a
\* request in any way.
CliNext ==
    \E userInput \in UserInputs, analysis \in Analyses,
       toolResult \in ToolResults :
        askQuestion(userInput, analysis, toolResult)

SpecCli == Init /\ [][CliNext]_vars

\* The HTTP client against a server that answers in any way.
ClientNext ==
    \/ \E method \in Methods : makeRequest(method)
    \/ \E i \in 1..MaxInFlight, outcome \in FetchOutcomes,
          responseSessionId \in ResponseSessionIds,
          responseText \in ResponseTexts \cup {NoText} :
          /\ outcome = "rejected" => responseSessionId = Absent
          /\ responseText = NoText <=> outcome # "ok"
          /\ ResponseReceived(i, outcome, responseSessionId, responseText)

SpecClient == Init /\ [][ClientNext]_vars

\* The router of server.js serving sessions while tools/call requests of
\* shortlist_intern run, some against an API that never answers.
HungNext ==
    \/ \E r \in Slots :
        \/ PostCreate(r, Absent, Single(InitializeMsg))
        \/ \E header \in Issued : PostReuse(r, header, Single(ToolsListMsg))
        \/ PostConnected(r)
        \/ PostHandled(r)
        \/ ReuseHandled(r)
    \/ CallToolRequest("shortlist_intern", [defined |-> TRUE, internId |-> Str("42")])
    \/ FetchSettled("ok")
    \/ JsonSettled("ok")
    \/ FetchHangs

SpecHung == Init /\ [][HungNext]_vars

\* One session of part_002 and its streamers, with timers that keep firing
\* for as long as the process runs and their interval is armed.
TimerInit == RouterInit /\ variant = "part_002"

TimerNext ==
    \/ \E r \in Slots :
        \/ Running(PostCreate(r, Absent, Single(InitializeMsg)))
        \/ Running(PostConnected(r))
        \/ Running(PostHandled(r))
        \/ \E header \in Issued : Running(GetForward(r, header))
        \/ Running(GetHandled(r))
        \/ Running(StreamTick(r))
    \/ UnhandledRejection

SpecTimer ==
    /\ TimerInit /\ [][TimerNext]_vars
    /\ \A r \in Slots : WF_vars(Running(StreamTick(r)))

\* The agent of the HTTP client, one invocation after another. app.invoke
\* runs the node an edge names as soon as the node before it has returned.
AgentStep == AgentGenerateResponse \/ AgentExecuteTools \/ AgentFinalResponse

AgentNext ==
    \/ AppInvoke("http")
    \/ AgentGenerateResponse
    \/ AgentExecuteTools
    \/ AgentFinalResponse

SpecAgent == Init /\ [][AgentNext]_vars /\ WF_vars(AgentStep)

\* The confirmation flow, one line of the user after another.
ConfirmNext ==
    \/ \E query \in UserTexts : Chat(query)
    \/ ConfirmGenerateResponse
    \/ ConfirmExecuteTools

SpecConfirm == Init /\ [][ConfirmNext]_vars

\* execute_tools of the four workflows, each after an answer of the LLM.
ExecuteNext ==
    \/ \E flow \in FirstFlows :
           \/ AppInvoke(flow)
           \/ FirstGenerateResponse(flow)
           \/ FirstExecuteTools(flow)
           \/ FirstFinalResponse(flow)
    \/ AppInvoke("http")
    \/ AgentGenerateResponse
    \/ AgentExecuteTools
    \/ AgentFinalResponse
    \/ \E query \in UserTexts : Chat(query)
    \/ ConfirmGenerateResponse
    \/ ConfirmExecuteTools

SpecExecute == Init /\ [][ExecuteNext]_vars

\* ======================================================= checked properties
\* The step is the first segment of a handler for a request of this verb.
Arrives(verb) == ev'.op = "received" /\ ev'.verb = verb

\* The step wrote HTTP 400 with the router's JSON-RPC error envelope.
Rejected400 ==
    /\ ev'.status = 400
    /\ ev'.writer = "router"
    /\ ev'.envelope.jsonrpc = "2.0"
    /\ ev'.envelope.error.code = ErrorCode
    /\ ev'.envelope.error.message = BadRequestMessage
    /\ ev'.envelope.error.message # ""

\* The body carries a well-formed initialize request: it is one, or it is
\* an array with one among its elements.
HoldsInitialize(body) ==
    \E i \in 1..Len(body.items) : body.items[i] = InitializeMsg

\* The transport that generated the session id sid.
OwnerOf(sid) == CHOOSE t \in Transports : tobj[t].sessionId = sid

\* C1: a POST whose session header is a key of the registry is forwarded to
\* the transport stored under that key, whatever its body: handleRequest is
\* called on that transport and no other, no transport is constructed, the
\* Server is not reconnected, and neither this segment nor the handler's
\* continuation changes the registry.
ReuseRoutesToRegistered ==
    [][ /\ (Arrives("POST") /\ ev'.header \in DOMAIN transports) =>
             LET t == transports[ev'.header]
             IN  /\ ev'.transport = t
                 /\ reqs'[ev'.slot].pc = "reuse_await"
                 /\ reqs'[ev'.slot].transport = t
                 /\ tobj' = [tobj EXCEPT ![t].active = @ + 1]
                 /\ serverTransport' = serverTransport
                 /\ transports' = transports
        /\ \A r \in Slots :
             (reqs[r].pc = "reuse_await" /\ reqs'[r].pc # "reuse_await")
                => transports' = transports ]_vars

\* C1 witness: a reuse POST with a non-initialize body was forwarded to the
\* older of two registered transports.
ReuseRoutedWitness ==
    /\ ev.op = "received" /\ ev.verb = "POST"
    /\ ev.body = Single(ToolsListMsg)
    /\ ev.header \in DOMAIN transports
    /\ Cardinality(DOMAIN transports) = 2
    /\ ev.transport = 1
    /\ reqs[ev.slot].pc = "reuse_await"

\* One step of the create path as the code takes it (shared by the C2
\* formulas): the first segment constructs one transport, connects it and
\* leaves the registry alone; the second calls handleRequest on that same
\* transport and leaves the registry alone; and the registry changes only in
\* the segment after the awaited handleRequest has returned, by one new key,
\* the transport's generated session id, bound to that transport, all
\* earlier entries unchanged.
CreateStepOrder ==
    /\ (Arrives("POST") /\ ev'.header = Absent /\ HoldsInitialize(ev'.body)) =>
          /\ tobj' = Append(tobj, NewTransport)
          /\ ev'.transport = Len(tobj')
          /\ reqs'[ev'.slot].pc = "connect_await"
          /\ reqs'[ev'.slot].transport = Len(tobj')
          /\ serverTransport' \in {serverTransport, Len(tobj')}
          /\ transports' = transports
    /\ \A r \in Slots :
          (reqs[r].pc = "connect_await" /\ reqs'[r].pc = "handle_await") =>
             /\ reqs'[r].transport = reqs[r].transport
             /\ tobj'[reqs[r].transport].active = tobj[reqs[r].transport].active + 1
             /\ transports' = transports
    /\ transports' # transports =>
          \E r \in Slots :
             LET t == reqs[r].transport
                 sid == tobj[t].sessionId
             IN  /\ reqs[r].pc = "handle_await" /\ reqs'[r].pc = "free"
                 /\ reqs[r].outcome # "throw"
                 /\ sid # "" /\ sid \notin DOMAIN transports
                 /\ DOMAIN transports' = DOMAIN transports \cup {sid}
                 /\ transports'[sid] = t
                 /\ tobj'[t].firstHandled
                 /\ \A k \in DOMAIN transports : transports'[k] = transports[k]

\* The create handler ends having added an entry.
CreateEndRegisters(r) ==
    (reqs[r].pc \in {"connect_await", "handle_await"} /\ reqs'[r].pc = "free")
       => Cardinality(DOMAIN transports') = Cardinality(DOMAIN transports) + 1

\* C2 as stated: every POST without session header and with an initialize
\* body runs create, connect, forward in this order and then adds exactly
\* one registry entry.
CreateAlwaysRegisters ==
    [][ CreateStepOrder /\ \A r \in Slots : CreateEndRegisters(r) ]_vars

\* C2 as amended: the create path runs create, connect, forward in this
\* order and adds at most one registry entry, only after the awaited
\* handleRequest has returned: exactly one (generated session id -> that
\* transport, earlier entries unchanged) when handleRequest returned and the
\* transport exposes a session id, none when connect or handleRequest threw
\* or the transport exposes no session id.
CreateRegistersAfterHandling ==
    [][ /\ CreateStepOrder
        /\ \A r \in Slots :
             LET t == reqs[r].transport
             IN  /\ (reqs[r].pc = "connect_await" /\ reqs'[r].pc = "free")
                       => transports' = transports
                 /\ (reqs[r].pc = "handle_await" /\ reqs'[r].pc = "free") =>
                       IF reqs[r].outcome # "throw" /\ tobj[t].sessionId # ""
                       THEN /\ ev'.stored = tobj[t].sessionId
                            /\ ev'.stored \notin DOMAIN transports
                            /\ ev'.stored \in DOMAIN transports'
                            /\ transports'[ev'.stored] = t
                       ELSE transports' = transports ]_vars

\* C2 witness: a create handler has just stored its transport as the second
\* entry of the registry.
CreateRegisteredWitness ==
    /\ ev.op = "resumed" /\ ev.stored # ""
    /\ ev.stored \in DOMAIN transports
    /\ transports[ev.stored] = ev.transport
    /\ Cardinality(DOMAIN transports) = 2

\* C3: a POST without session header whose body is no initialize request
\* is answered 400 with the error envelope (non-empty message); no
\* transport is constructed or touched, the Server is not connected to
\* anything, the registry is unchanged.
NoHeaderNonInitializeRejected ==
    [][ (Arrives("POST") /\ ev'.header = Absent /\ ~HoldsInitialize(ev'.body)) =>
           /\ Rejected400
           /\ ev'.transport = Undefined
           /\ reqs'[ev'.slot] = FreeSlot
           /\ tobj' = tobj
           /\ serverTransport' = serverTransport
           /\ transports' = transports ]_vars

\* C3 witness: an initialize message without params, sent without session
\* header while a session exists, was answered 400.
NoHeaderRejectedWitness ==
    /\ ev.op = "received" /\ ev.verb = "POST"
    /\ ev.header = Absent
    /\ ev.body = Single(BadInitializeMsg)
    /\ ev.status = 400 /\ ev.envelope.error.message # ""
    /\ DOMAIN transports # {}

\* C4: a POST whose session header is present (a non-empty value) but no
\* key of the registry is answered 400 with the error envelope, whatever
\* its body; no transport is constructed and the registry is unchanged.
UnknownSessionRejected ==
    [][ (Arrives("POST") /\ Truthy(ev'.header) /\ ev'.header \notin DOMAIN transports) =>
           /\ Rejected400
           /\ tobj' = tobj
           /\ transports' = transports ]_vars

\* C5: a POST with a registered session id and an initialize body is
\* handled as reuse (no transport constructed, forwarded to the registered
\* one), and no step ever removes a registry key or binds it to another
\* transport.
SessionNeverReplaced ==
    [][ /\ (Arrives("POST") /\ ev'.header \in DOMAIN transports
              /\ HoldsInitialize(ev'.body)) =>
             /\ Len(tobj') = Len(tobj)
             /\ ev'.transport = transports[ev'.header]
             /\ reqs'[ev'.slot].pc = "reuse_await"
        /\ \A k \in DOMAIN transports :
             k \in DOMAIN transports' /\ transports'[k] = transports[k] ]_vars

\* C5 witness: an initialize body arrived with a registered session id and
\* was forwarded to the registered transport, while a second session exists.
ReuseWithInitializeWitness ==
    /\ ev.op = "received" /\ ev.verb = "POST"
    /\ ev.header \in DOMAIN transports
    /\ HoldsInitialize(ev.body)
    /\ reqs[ev.slot].pc = "reuse_await"
    /\ Cardinality(DOMAIN transports) = 2

\* C6: whatever the interleaving of initialize requests, the create
\* handlers in flight work on pairwise different transports, the session
\* ids generated so far are pairwise different, and no two registry keys
\* map to the same transport.
SessionsDistinct ==
    /\ \A r1, r2 \in Slots :
          (r1 # r2 /\ reqs[r1].pc \in {"connect_await", "handle_await"}
                   /\ reqs[r2].pc \in {"connect_await", "handle_await"})
             => reqs[r1].transport # reqs[r2].transport
    /\ \A t1, t2 \in Transports :
          (t1 # t2 /\ tobj[t1].sessionId # "")
             => tobj[t1].sessionId # tobj[t2].sessionId
    /\ \A k1, k2 \in DOMAIN transports :
          k1 # k2 => transports[k1] # transports[k2]

\* C6 witness: two initialize requests are being handled at the same time
\* and both transports have generated their session id.
ConcurrentCreatesWitness ==
    \E r1, r2 \in Slots :
       /\ r1 # r2
       /\ reqs[r1].pc = "handle_await" /\ reqs[r2].pc = "handle_await"
       /\ tobj[reqs[r1].transport].sessionId # ""
       /\ tobj[reqs[r2].transport].sessionId # ""

\* C7: a POST tools/list that carries a session id an initialize response
\* has returned to a client is never answered 400 and is forwarded to the
\* transport that generated that id.
IssuedSessionAlwaysRouted ==
    (ev.op = "received" /\ ev.verb = "POST" /\ ev.header \in Issued
        /\ ev.body = Single(ToolsListMsg))
       => /\ ev.status # 400
          /\ ev.transport = OwnerOf(ev.header)

\* C8: the Server hands the answer to a request only to the transport the
\* request came in on, notifications go out through the transport of their
\* own session, and every registered transport is the one the Server is
\* connected to.
SessionsIsolated ==
    /\ \A r \in Slots : reqs[r].via \in {Undefined, reqs[r].transport}
    /\ \A k \in DOMAIN transports : serverTransport = transports[k]

\* C9: every transport in the registry, and so every transport the router
\* forwards a request to, has completed the handling of its initialize
\* request.
RegisteredTransportsInitialized ==
    /\ \A k \in DOMAIN transports : tobj[transports[k]].firstHandled
    /\ \A r \in Slots :
          reqs[r].pc \in {"reuse_await", "get_await", "streaming"}
             => tobj[reqs[r].transport].firstHandled

\* C9 witness: a request is forwarded to a registered transport while
\* another transport has generated its session id and its create handler is
\* still waiting for handleRequest.
ForwardDuringCreateWitness ==
    \E r1, r2 \in Slots :
       /\ reqs[r1].pc = "reuse_await"
       /\ reqs[r2].pc = "handle_await"
       /\ tobj[reqs[r2].transport].sessionId # ""
       /\ ~tobj[reqs[r2].transport].firstHandled

\* C10: a GET whose session header is missing or no key of the registry is
\* answered 400 with the error envelope; no transport is touched, no
\* streamer is started, the registry is unchanged.
GetWithoutSessionRejected ==
    [][ (Arrives("GET") /\ (ev'.header = Absent \/ ev'.header \notin DOMAIN transports)) =>
           /\ Rejected400
           /\ reqs'[ev'.slot] = FreeSlot
           /\ tobj' = tobj
           /\ transports' = transports ]_vars

\* The awaited handleRequest of the GET handler r has returned.
GetReturned(r) ==
    /\ reqs[r].pc = "get_await" /\ reqs'[r].pc # "get_await"
    /\ reqs[r].outcome \notin {"throw", "throw_sent"}

\* A GET whose session header is a registry key calls handleRequest on the
\* transport stored under that key and on no other.
GetForwardedToRegistered ==
    (Arrives("GET") /\ ev'.header \in DOMAIN transports) =>
       LET t == transports[ev'.header]
       IN  /\ ev'.transport = t
           /\ reqs'[ev'.slot].pc = "get_await"
           /\ reqs'[ev'.slot].transport = t
           /\ tobj' = [tobj EXCEPT ![t].active = @ + 1]

\* The handler r starts a streamer against the transport it forwarded to:
\* the first notification goes to that transport and the timer is armed.
StreamerBegins(r) ==
    /\ reqs'[r].pc = "streaming"
    /\ reqs'[r].transport = reqs[r].transport
    /\ reqs'[r].messageCount = 0
    /\ ev'.transport = reqs[r].transport
    /\ ev'.sent = <<[slot |-> r, data |-> "SSE Connection established"]>>

\* C11 as stated: every GET whose session header is a registry key is
\* forwarded to that session's transport and, when that call has returned,
\* begins the notification streamer against the same transport.
GetAlwaysStreams ==
    [][ /\ GetForwardedToRegistered
        /\ \A r \in Slots : GetReturned(r) => StreamerBegins(r) ]_vars

\* C11 as amended: every GET whose session header is a registry key is
\* forwarded to that session's transport; when that call has returned, the
\* part_002 server begins the streamer against the same transport, and the
\* server.js server, which has no streamer, ends the handler without
\* sending a notification. A handler whose forwarded call threw starts no
\* streamer either.
GetStreamsInStreamingVariant ==
    [][ /\ GetForwardedToRegistered
        /\ \A r \in Slots :
             /\ GetReturned(r) =>
                  IF variant = "part_002" THEN StreamerBegins(r)
                  ELSE reqs'[r] = FreeSlot /\ ev'.sent = <<>>
             /\ (reqs[r].pc = "get_await" /\ reqs'[r].pc # "get_await"
                   /\ reqs[r].outcome \in {"throw", "throw_sent"})
                  => reqs'[r] = FreeSlot /\ ev'.sent = <<>> ]_vars

\* C11 witness: with two sessions registered, a GET for the older one has
\* started its streamer against the older transport.
StreamerStartedWitness ==
    /\ variant = "part_002"
    /\ ev.op = "resumed" /\ ev.verb = "GET"
    /\ Cardinality(DOMAIN transports) = 2
    /\ ev.transport = 1
    /\ reqs[ev.slot].pc = "streaming" /\ reqs[ev.slot].transport = 1
    /\ Len(ev.sent) = 1

\* The step is a firing of the interval timer of the streamer of handler r.
Ticks(r) == reqs[r].pc = "streaming" /\ reqs'[r] # reqs[r]

\* C12: one streamer run sends 'SSE Connection established' when it
\* starts, 'Message 1' on the first tick, 'Message 2' and then 'Streaming
\* complete!' on the second tick, which ends the run; no other step sends a
\* notification, so an ended run sends nothing more; and no streamer step
\* closes a transport.
StreamerSendsInOrder ==
    [][ /\ \A r \in Slots :
             /\ (GetReturned(r) /\ variant = "part_002") =>
                   ev'.sent = <<[slot |-> r, data |-> "SSE Connection established"]>>
             /\ (Ticks(r) /\ reqs[r].messageCount = 0) =>
                   /\ ev'.sent = <<[slot |-> r, data |-> "Message 1"]>>
                   /\ reqs'[r].pc = "streaming" /\ reqs'[r].messageCount = 1
             /\ (Ticks(r) /\ reqs[r].messageCount = 1) =>
                   /\ ev'.sent = <<[slot |-> r, data |-> "Message 2"],
                                   [slot |-> r, data |-> "Streaming complete!"]>>
                   /\ reqs'[r] = FreeSlot
             /\ reqs[r].pc = "streaming" => reqs[r].messageCount \in {0, 1}
        /\ ev'.sent # <<>> =>
             /\ \E r \in Slots : (GetReturned(r) /\ variant = "part_002") \/ Ticks(r)
             /\ \A t \in Transports : tobj'[t].closed = tobj[t].closed ]_vars

\* C12 witness: the last tick of a run has sent 'Message 2' and the
\* terminal notification, and both were written.
RunCompletedWitness ==
    /\ ev.op = "tick"
    /\ Len(ev.sent) = 2 /\ ev.sent[2].data = "Streaming complete!"
    /\ ev.out = ev.sent
    /\ reqs[ev.slot].pc = "free"

\* The frames of out are frames of sent, in the order of sent.
InOrder(out, sent) ==
    \E f \in [1..Len(out) -> 1..Len(sent)] :
       /\ \A i \in 1..Len(out) : out[i] = sent[f[i]]
       /\ \A i, j \in 1..Len(out) : i < j => f[i] < f[j]

RegistryAppendOnly ==
    [][ /\ DOMAIN transports \subseteq DOMAIN transports'
        /\ \A k \in DOMAIN transports : transports'[k] = transports[k]
        /\ Cardinality(DOMAIN transports') >= Cardinality(DOMAIN transports) ]_vars

\* C14 witness: two sessions are registered and a later request on one of
\* them was answered 500.
RegistryKeptWitness ==
    /\ Cardinality(DOMAIN transports) = 2
    /\ ev.op = "resumed" /\ ev.status = 500
    /\ \A k \in DOMAIN transports : tobj[transports[k]].sessionId = k

\* C15: the registry changes only in the last segment of a create handler
\* whose handleRequest returned; the first segment of every POST and GET
\* (reuse, create, rejection), every segment that answers 400 or 500 or
\* ends in a rejected promise, every continuation of a reuse or GET
\* handler and every notification push leave it unchanged.
RegistryChangedOnlyByCreate ==
    [][ /\ transports' # transports =>
             \E r \in Slots :
                /\ reqs[r].pc = "handle_await" /\ reqs'[r].pc = "free"
                /\ reqs[r].outcome \notin {"throw", "throw_sent"}
        /\ (ev'.op \in {"received", "tick"}) => transports' = transports
        /\ (ev'.status \in {400, 500} \/ ev'.rejected) => transports' = transports
        /\ ev'.sent # <<>> => transports' = transports
        /\ \A r \in Slots :
             (reqs[r].pc \in {"reuse_await", "get_await", "connect_await", "streaming"}
                /\ reqs'[r] # reqs[r]) => transports' = transports ]_vars

\* C15 witness: with two sessions registered, a notification was pushed on
\* one of them.
PushWithSessionsWitness ==
    /\ Cardinality(DOMAIN transports) = 2
    /\ ev.op = "tick" /\ ev.out # <<>>

\* C16: after cleanup no registered transport remains open.
CleanupClosesRegistered ==
    ev.op = "cleanup" => \A k \in DOMAIN transports : tobj[transports[k]].closed

\* C17: a POST handler whose server.connect or transport.handleRequest
\* threw answers 500 with the error envelope, its promise does not reject,
\* and the handler is done.
PostThrowAnswered500 ==
    [][ \A r \in Slots :
          (reqs[r].pc \in {"connect_await", "handle_await", "reuse_await"}
             /\ reqs[r].outcome \in {"throw", "throw_sent"}
             /\ reqs'[r] # reqs[r])
          => /\ ev'.status = 500 /\ ev'.writer = "router"
             /\ ev'.envelope.jsonrpc = "2.0"
             /\ ev'.envelope.error.code = ErrorCode
             /\ ~ev'.rejected
             /\ reqs'[r] = FreeSlot ]_vars

\* C18: no segment of a POST handler, a GET handler or a streamer ends in
\* a promise that rejects with nobody to catch it.
NoUnhandledRejection == ~ev.rejected


\* The message is built with the piece m in it.
Contains(message, m) == \E i \in 1..Len(message) : message[i] = m

\* C19: a tools/call whose external API call failed with message m is
\* answered with a JSON-RPC error of the internal-error code whose message
\* contains m, never with a result; the API was called once for it; and the
\* step that answers leaves the dispatcher idle for the next request.
ApiFailureAnswered ==
    [][ answers' # answers =>
          LET a == answers'[Len(answers')]
          IN  /\ answers' = Append(answers, a)
              /\ call'.pc = "idle"
              /\ a.failure # "" =>
                   /\ a.kind = "error"
                   /\ a.code = -32603
                   /\ Contains(a.message, a.failure)
                   /\ a.fetches = 1
                   /\ Len(a.invoked) = 1 ]_vars

\* C19 witness: shortlist_intern was answered with the error of a failed
\* fetch, and the next tools/call was answered with a result.
FailureThenResultWitness ==
    /\ Len(answers) = 2
    /\ answers[1].name = "shortlist_intern"
    /\ answers[1].failure = "fetch failed" /\ answers[1].kind = "error"
    /\ answers[2].kind = "result"

\* The handlers registered under the name in the file that runs.
Registered(name) == { h.handler : h \in { g \in Tools : g.name = name } }

\* C20 as stated: a tools/call whose name is a tool's name awaits that
\* tool's handler exactly once and no other; for any other name no handler
\* is invoked and the answer is an 'Unknown tool' error.
DispatchByNameOrUnknownTool ==
    \A i \in 1..Len(answers) :
       LET a == answers[i]
       IN  IF Registered(a.name) # {}
           THEN Len(a.invoked) = 1 /\ a.invoked[1] \in Registered(a.name)
           ELSE /\ a.invoked = <<>>
                /\ a.kind = "error"
                /\ Contains(a.message, "Unknown tool: ")

\* C20 as amended: the handler is resolved by exact match of the name and
\* awaited at most once. server.js: exactly once for a tool's name, and
\* for any other name no handler and the error MethodNotFound 'Unknown
\* tool: <name>'. part_002: a call without arguments fails with 'arguments
\* undefined' and one without name with 'tool name undefined' before the
\* name is compared, no handler invoked; else exactly once for a tool's
\* name, and for any other name no handler and the error 'Tool not found'.
DispatchByExactName ==
    \A i \in 1..Len(answers) :
       LET a == answers[i]
           Fails(code, message) ==
              /\ a.invoked = <<>> /\ a.fetches = 0
              /\ a.kind = "error" /\ a.code = code
              /\ message \in { a.message[j] : j \in 1..Len(a.message) }
       IN  IF variant = "part_002" /\ ~a.args.defined
           THEN Fails(-32603, "arguments undefined")
           ELSE IF variant = "part_002" /\ a.name = ""
           THEN Fails(-32603, "tool name undefined")
           ELSE IF Registered(a.name) # {}
           THEN Len(a.invoked) = 1 /\ a.invoked[1] \in Registered(a.name)
           ELSE IF variant = "part_002"
           THEN Fails(-32603, "Tool not found")
           ELSE Fails(-32601, "Unknown tool: ") /\ Contains(a.message, a.name)

\* C20 witness: server.js awaited shortListIntern for 'shortlist_intern'
\* and no handler for the same name in capitals.
ExactNameWitness ==
    /\ variant = "server.js"
    /\ Len(answers) = 2
    /\ answers[1].name = "shortlist_intern"
    /\ answers[1].invoked = <<"shortListIntern">>
    /\ answers[2].name = "SHORTLIST_INTERN"
    /\ answers[2].invoked = <<>>

\* C21: isInitializeRequest(body) is true exactly when the body is a valid
\* initialize request, or is an array with at least one valid initialize
\* request among its elements: false for the empty array and for an array
\* without one, true for an array that mixes one with other messages.
IsInitializeIffSomeValidates ==
    probe.op = "isInitializeRequest" =>
        LET body == probe.body
            n == Len(body.items)
        IN  /\ probe.result <=>
                 IF body.isArray
                 THEN \E i \in 1..n : body.items[i] = InitializeMsg
                 ELSE body.items[1] = InitializeMsg
            /\ (body.isArray /\ n = 0) => ~probe.result
            /\ (body.isArray /\ \A i \in 1..n : body.items[i] # InitializeMsg)
                 => ~probe.result
            /\ (/\ body.isArray
                /\ \E i \in 1..n : body.items[i] = InitializeMsg
                /\ \E i \in 1..n : body.items[i] # InitializeMsg)
                 => probe.result

\* C21 witness: the method was called with an array that holds a
\* tools/list request and an initialize request, and with nothing else since.
MixedArrayProbedWitness ==
    /\ probe.op = "isInitializeRequest"
    /\ probe.body = Batch(<<ToolsListMsg, InitializeMsg>>)
    /\ probe.result

\* C22: createErrorResponse(message) returns, for every message, an
\* envelope with jsonrpc "2.0", error code -32000, the given message, an id
\* that no earlier call returned, and an error member but no result member.
ErrorEnvelopeWellFormed ==
    probe.op = "createErrorResponse" =>
        /\ probe.envelope.jsonrpc = "2.0"
        /\ probe.envelope.error.code = -32000
        /\ probe.envelope.error.message = probe.message
        /\ probe.envelope.id # ""
        /\ probe.envelope.id \notin probe.ids
        /\ "error" \in DOMAIN probe.envelope
        /\ "result" \notin DOMAIN probe.envelope

\* C22 witness: the third envelope, made for the empty message.
ThirdEnvelopeWitness ==
    /\ probe.op = "createErrorResponse"
    /\ probe.message = ""
    /\ Cardinality(probe.ids) = 2

\* C23: the catalog of every server whose dispatcher offers shortlist_intern
\* has a descriptor of that name with an inputSchema that requires
\* "internId", and every descriptor of every catalog has a name, a
\* description and an inputSchema.
CatalogDescribesShortlist ==
    probe.op = "tools/list" =>
        /\ "shortlist_intern" \in Dispatched(probe.server) =>
             \E d \in probe.tools :
                /\ d.name = "shortlist_intern"
                /\ "inputSchema" \in DOMAIN d
                /\ "internId" \in d.inputSchema.required
        /\ \A d \in probe.tools :
             {"name", "description", "inputSchema"} \subseteq DOMAIN d

\* C27: the client sends no session header while it has no session id (so
\* on its first request), takes the id of the first ok response that carries
\* one, changes it at no other step and never once it is set, and sends
\* the id it holds in the session header of every request it makes.
ClientKeepsFirstSessionId ==
    [][ /\ Len(client'.pending) > Len(client.pending) =>
             /\ client'.last.op = "request"
             /\ client.made = 0 => client'.last.header = Absent
             /\ client'.last.header =
                  IF client.sessionId = Null THEN Absent ELSE client.sessionId
             /\ client'.pending[Len(client'.pending)].header = client'.last.header
             /\ client'.sessionId = client.sessionId
        /\ client.sessionId # Null => client'.sessionId = client.sessionId
        /\ (client.sessionId = Null /\ Len(client'.pending) < Len(client.pending)) =>
             client'.sessionId =
                IF /\ client'.last.outcome = "ok"
                   /\ client'.last.responseSessionId \notin {Absent, EmptyHeader}
                THEN client'.last.responseSessionId ELSE Null ]_vars

\* C27 witness: holding session-A, the client read an ok response that
\* carried session-B to a request it had sent with session-A.
SecondIdIgnoredWitness ==
    /\ client.sessionId = "session-A"
    /\ client.last.op = "response"
    /\ client.last.outcome = "ok"
    /\ client.last.header = "session-A"
    /\ client.last.responseSessionId = "session-B"

\* C24: a tools/call of shortlist_intern with arguments {internId: x}
\* whose API call succeeded is answered with a result whose content[0] has
\* type "text" and a text that contains x as the caller wrote it, also
\* where the number sent to the API differs from it.
ShortlistResultEchoesInternId ==
    \A i \in 1..Len(answers) :
       LET a == answers[i]
       IN  (a.name = "shortlist_intern" /\ a.args.defined /\ a.failure = ""
              /\ a.fetches = 1) =>
             /\ a.kind = "result"
             /\ Len(a.content) >= 1
             /\ a.content[1].type = "text"
             /\ Contains(a.content[1].text, a.args.internId.value)

\* C24 witness: the intern id "007", sent to the API as 7, was echoed.
LeadingZerosEchoedWitness ==
    \E i \in 1..Len(answers) :
       /\ answers[i].name = "shortlist_intern"
       /\ answers[i].kind = "result"
       /\ answers[i].args.internId = Str("007")
       /\ answers[i].body = "7"
       /\ Contains(answers[i].content[1].text, "007")

\* A tools/call is suspended for good on an API call that never returns.
Hung == \E i \in 1..Len(answers) : answers[i].kind = "pending"

\* C25: while a tool call is suspended on an API call that never returns,
\* no step of another request is disabled: the router takes the next POST
\* (the first free handler receives it, within the run's budget), every
\* handler suspended at an await can resume, and the Server takes, runs
\* and answers further tools/call requests.
HungCallBlocksNothing ==
    Hung =>
      /\ \A r \in Slots :
           /\ CanReceive(r) =>
                \A header \in Issued \cap DOMAIN transports :
                   ENABLED PostReuse(r, header, Single(ToolsListMsg))
           /\ reqs[r].pc = "connect_await" => ENABLED PostConnected(r)
           /\ reqs[r].pc = "handle_await" => ENABLED PostHandled(r)
           /\ reqs[r].pc = "reuse_await" => ENABLED ReuseHandled(r)
      /\ (/\ reqs[1].pc = "free" /\ uuidCount + Busy + 1 <= MaxUuid
          /\ Len(tobj) < MaxTransports) =>
           ENABLED PostCreate(1, Absent, Single(InitializeMsg))
      /\ (call.pc = "idle" /\ Len(answers) < MaxCalls) =>
           ENABLED CallToolRequest("shortlist_intern",
                                   [defined |-> TRUE, internId |-> Str("42")])
      /\ call.pc = "fetch_await" => ENABLED FetchSettled("ok")
      /\ call.pc = "json_await" => ENABLED JsonSettled("ok")

\* C25 witness: with one tool call hung, a later tools/call was answered
\* with its result while a POST of a registered session was suspended in
\* its transport.
AnsweredWhileHungWitness ==
    /\ Len(answers) = 2
    /\ answers[1].kind = "pending"
    /\ answers[2].kind = "result"
    /\ \E r \in Slots : reqs[r].pc = "reuse_await"

\* The POST handlers suspended in handleRequest of transport t, and those
\* among them whose response the transport has started.
PostsIn(t) ==
    { r \in Slots : /\ reqs[r].verb = "POST"
                    /\ reqs[r].pc \in {"handle_await", "reuse_await"}
                    /\ reqs[r].transport = t }

Responding(t) == { r \in PostsIn(t) : reqs[r].outcome = "dispatched" }

\* C26 as stated: no transport has more than one POST response in
\* progress at any time.
OneResponsePerTransport ==
    \A t \in Transports : Cardinality(Responding(t)) <= 1

\* C26 as amended: the router forwards every POST of a session at once, so
\* a transport has one handleRequest call in progress for each request of
\* its session that is in flight, each on the response of its own request,
\* and as many responses in progress as there are such POSTs; only the
\* create request of a transport is alone on it, the transport not being
\* registered before that request was handled.
OneResponsePerRequest ==
    \A t \in Transports :
       /\ tobj[t].active =
            Cardinality({ r \in Slots : /\ reqs[r].transport = t
                                        /\ reqs[r].pc \in {"handle_await",
                                                           "reuse_await",
                                                           "get_await"} })
       /\ Cardinality(Responding(t)) <= MaxInFlight
       /\ (\E r \in PostsIn(t) : reqs[r].pc = "handle_await")
            => Cardinality(PostsIn(t)) = 1

\* C26 witness: two POSTs of one session are in flight and the transport
\* has started the response of both.
TwoResponsesWitness ==
    \E t \in Transports :
       /\ Cardinality(Responding(t)) = 2
       /\ \A r \in Responding(t) : reqs[r].pc = "reuse_await"

\* The transport has written to the response of the POST that handler r is
\* suspended on: it took the message, answered on its own, or threw after
\* it had started the response.
TransportResponded(r) ==
    /\ reqs[r].pc \in {"handle_await", "reuse_await"}
    /\ reqs[r].outcome \in {"dispatched", "refused", "throw_sent"}

\* The step wrote the router's error envelope with this status.
RouterWrote(codes) == ev'.writer = "router" /\ ev'.status \in codes

\* C28: every POST gets a response from exactly one writer: the transport,
\* or the router's 400, or the router's 500. A request that ends in its
\* first segment was answered 400 or 500 by the router; one forwarded to a
\* transport is written by the transport alone unless handleRequest threw
\* before writing; a create suspended on connect has nothing written yet;
\* and the segment that ends a forwarded request writes the 500 exactly
\* when the transport had written nothing, and nothing otherwise.
ExactlyOneResponse ==
    [][ \A r \in Slots :
          LET arrives == /\ reqs[r].pc = "free" /\ ev'.op = "received"
                         /\ ev'.slot = r /\ ev'.verb = "POST"
              forwarded(pc) ==
                 /\ reqs'[r].pc = pc
                 /\ ev'.writer # "router"
                 /\ ev'.writer = "transport" <=> reqs'[r].outcome # "throw"
          IN  /\ (arrives /\ reqs'[r].pc = "free") => RouterWrote({400, 500})
              /\ (arrives /\ reqs'[r].pc # "free") =>
                    \/ reqs'[r].pc = "connect_await" /\ ev'.writer = ""
                    \/ forwarded("reuse_await")
              /\ (reqs[r].pc = "connect_await" /\ reqs'[r] # reqs[r]) =>
                    IF reqs'[r].pc = "free" THEN RouterWrote({500})
                    ELSE forwarded("handle_await")
              /\ (/\ reqs[r].pc \in {"handle_await", "reuse_await"}
                  /\ reqs'[r] # reqs[r]) =>
                    /\ reqs'[r] = FreeSlot
                    /\ IF TransportResponded(r)
                       THEN ev'.writer = "" /\ ev'.status = 0
                       ELSE RouterWrote({500}) ]_vars

\* C28 witness: a POST whose transport threw after it had started the
\* response has ended with no 500 written.
NoSecondResponseWitness ==
    /\ ev.op = "resumed" /\ ev.verb = "POST"
    /\ ev.rejected
    /\ ev.writer = "" /\ ev.status = 0
    /\ reqs[ev.slot].pc = "free"

\* C29: every key of the registry is the session id of the transport stored
\* under it, and a transport whose first request has been handled without
\* it having a session id is under no key.
RegistryKeyedBySessionId ==
    /\ \A k \in DOMAIN transports :
          /\ transports[k] \in Transports
          /\ tobj[transports[k]].sessionId = k
          /\ k # ""
    /\ \A t \in Transports :
          (tobj[t].firstHandled /\ tobj[t].sessionId = "")
             => \A k \in DOMAIN transports : transports[k] # t

\* C29 witness: one transport is registered under its session id, and
\* another one, which answered its first request without generating an
\* id, is not.
UnidentifiedLeftOutWitness ==
    /\ Cardinality(DOMAIN transports) = 1
    /\ \E t \in Transports :
          /\ tobj[t].firstHandled /\ tobj[t].sessionId = ""
          /\ \A k \in DOMAIN transports : transports[k] # t
    /\ ev.op = "resumed" /\ ev.stored = ""

\* C30: the segment in which a create attempt fails (server.connect or the
\* new transport's handleRequest has thrown) leaves the registry as it
\* was, with no entry for the new transport, and answers the request with
\* the router's 500 envelope.
FailedCreateAnswered500 ==
    [][ \A r \in Slots :
          (/\ reqs[r].pc \in {"connect_await", "handle_await"}
           /\ reqs[r].outcome \in Throws
           /\ reqs'[r] # reqs[r])
          => /\ transports' = transports
             /\ \A k \in DOMAIN transports' : transports'[k] # reqs[r].transport
             /\ ev'.status = 500 /\ ev'.writer = "router"
             /\ ev'.envelope.error.code = ErrorCode ]_vars

\* C38: in every server the names of the descriptors that tools/list
\* returns are the names the tools/call dispatcher accepts: every listed
\* tool can be called, and every tool that can be called is listed.
CatalogEqualsDispatcher ==
    probe.op = "tools/list" =>
        { d.name : d \in probe.tools } = Dispatched(probe.server)

\* The last step was the timer firing of streamer r that passed the
\* terminal notification to transport.send and cleared the interval.
SentTerminal(r) ==
    /\ ev.op = "tick" /\ ev.slot = r
    /\ Len(ev.sent) > 0 /\ ev.sent[Len(ev.sent)] = Frame(r, Complete)
    /\ reqs[r].pc = "free"

\* C31: with timers that fire fairly, every started streamer comes to the
\* firing that sends the terminal notification and clears its interval,
\* whether its sends are written or rejected.
StreamerTerminates ==
    \A r \in Slots : (reqs[r].pc = "streaming") ~> SentTerminal(r)

\* C32: in the workflow of the HTTP client, whatever the LLM answers, one
\* invocation runs execute_tools at most maxToolCalls times, toolCallCount
\* never exceeds maxToolCalls, and the invocation reaches __end__.
AgentStopsWithinMaxToolCalls ==
    /\ [](wf.flow = "http" =>
            /\ wf.maxToolCalls = maxToolCalls
            /\ wf.executed <= wf.maxToolCalls
            /\ wf.toolCallCount <= wf.maxToolCalls)
    /\ (wf.flow = "http" /\ wf.node # "__end__") ~> (wf.node = "__end__")

\* The third run of execute_tools has led through final_response to the end.
ThreeRoundsEndedWitness ==
    /\ wf.flow = "http"
    /\ wf.node = "__end__"
    /\ wf.executed = maxToolCalls
    /\ wf.toolCallCount = maxToolCalls
    /\ wf.step = "final_response"

\* A step of execute_tools of the confirmation flow that returned.
ConfirmExecuted ==
    /\ wf.flow = "confirm"
    /\ wf.node = "execute_tools"
    /\ wf'.step = "execute_tools"

\* The call of the message that is a first request to cancel: no
\* confirmation is awaited, and it is the first call of cancel_interview
\* that names a scheduled interview.
Requests(i) ==
    /\ wf.context.pendingCancellation = Null
    /\ ~wf.context.awaitingConfirmation
    /\ i \in 1..Len(LastToolCalls)
    /\ LastToolCalls[i].name = "cancel_interview"
    /\ Find(JSONParse(LastToolCalls[i].arguments), wf.interviews) # Null
    /\ \A j \in 1..(i - 1) :
           \/ LastToolCalls[j].name # "cancel_interview"
           \/ Find(JSONParse(LastToolCalls[j].arguments), wf.interviews) = Null

\* C33: in the confirmation flow an interview leaves the mock database only
\* while a cancellation is pending for that interview and the last message
\* of the user is 'yes' (lower-cased, trimmed); a first request to cancel
\* records the pending cancellation and removes nothing, and an answer
\* 'no' removes nothing.
RemovedOnlyOnPendingYes ==
    [][/\ wf'.interviews # wf.interviews =>
            /\ wf.context.pendingCancellation # Null
            /\ Normalize(wf.user) = "yes"
            /\ wf'.interviews =
                   wf.interviews \ {wf.context.pendingCancellation}
       /\ \A i \in 1..MaxCallsPerMessage :
            ConfirmExecuted /\ Requests(i) =>
               /\ wf'.interviews = wf.interviews
               /\ wf'.context.awaitingConfirmation
               /\ wf'.context.pendingCancellation =
                      Find(JSONParse(LastToolCalls[i].arguments), wf.interviews)
       /\ Normalize(wf.user) = "no" => wf'.interviews = wf.interviews]_vars

\* A first request has recorded the interview with TechCorp as pending, and
\* both interviews are still in the mock database.
PendingRecordedWitness ==
    /\ wf.flow = "confirm"
    /\ wf.step = "execute_tools"
    /\ wf.user = CancelRequest
    /\ wf.context.pendingCancellation = "int_1"
    /\ wf.context.awaitingConfirmation
    /\ wf.interviews = MockInterviews

\* C34: in the confirmation flow, when a cancellation is pending and the
\* user answers 'yes', the step of execute_tools removes the pending
\* interview from the mock database and reports a successful cancellation.
YesCancelsPending ==
    [][(/\ wf.flow = "confirm"
        /\ wf.node = "execute_tools"
        /\ wf.context.pendingCancellation # Null
        /\ Normalize(wf.user) = "yes"
        /\ wf' # wf) =>
            /\ wf.context.pendingCancellation \notin wf'.interviews
            /\ \E i \in 1..Len(wf'.outputs) :
                   wf'.outputs[i].content = "Successfully cancelled"]_vars

\* C35: in the confirmation flow awaitingConfirmation is true exactly when
\* pendingCancellation holds an interview, in the state of the graph and in
\* the context the chat loop keeps between the turns.
ContextConsistent ==
    /\ wf.context.awaitingConfirmation <=>
           wf.context.pendingCancellation # Null
    /\ wf.globalContext.awaitingConfirmation <=>
           wf.globalContext.pendingCancellation # Null

\* C37: in every workflow execute_tools returns one tool message for each
\* tool call of the last assistant message, in the order of the calls and
\* with the id of the call, whatever happens to the call.
ExecuteToolsAnswersEveryCall ==
    /\ wf.step # "execute_tools threw"
    /\ wf.step = "execute_tools" =>
          /\ Len(wf.outputs) = Len(wf.toolCalls.calls)
          /\ \A i \in 1..Len(wf.outputs) :
                 /\ wf.outputs[i].role = "tool"
                 /\ wf.outputs[i].tool_call_id = wf.toolCalls.calls[i].id

\* The last response the client read was ok and delivered this envelope,
\* as a JSON body or as an SSE frame.
Delivered(envelope) ==
    /\ client.last.op = "response"
    /\ client.last.outcome = "ok"
    /\ client.last.responseText \in {PlainJson(envelope), SseFrame(envelope)}

\* C39: makeRequest returns the same for a JSON-RPC response delivered as
\* a JSON body and as an SSE data frame: the result of the envelope when
\* there is one, an error raised when the envelope carries an error, so
\* that initializeMCP gets the tool list and a tool wrapper the text of
\* result.content[0] in both modes.
SameReturnInBothModes ==
    \A envelope \in Envelopes :
        Delivered(envelope) =>
            /\ client.last.returned = ReadBody(PlainJson(envelope))
            /\ client.last.returned = ReadBody(SseFrame(envelope))
            /\ envelope.error => client.last.returned.threw
            /\ ~envelope.error =>
                  client.last.returned = Returned("result", envelope)
            /\ (~envelope.error /\ envelope.result.kind = "tools") =>
                  InitializedTools(client.last.returned) = envelope.result
            /\ (~envelope.error /\ envelope.result.kind = "content") =>
                  WrapperText(client.last.returned) = envelope.result.text

\* C36: the CLI calls executeTool only when the analysis of the prompt is
\* not null and carries a confidence that is a number (or a string that
\* reads as one) of at least 0.5; in every other case it asks for the next
\* input.
ExecutesOnlyWhenConfident ==
    probe.op = "askQuestion" =>
        /\ probe.body.executeTool =>
              /\ probe.body.analysis.present
              /\ ~ToNumber(probe.body.analysis.confidence).nan
              /\ ToNumber(probe.body.analysis.confidence).tenths >= 5
        /\ (~probe.body.executeTool /\ probe.body.userInput # "EXIT") =>
              probe.body.next = "askQuestion"

====
